---- MODULE Spec2Model ----
(***************************************************************************)
(* Retail orchestration state machine of agents/retail_orchestrator_agent  *)
(* (orchestrate_customer_packet and its helpers) together with the         *)
(* validation helpers of agents/utilities and the specialist adapters.     *)
(*                                                                         *)
(* Free text is represented by a small universe of concrete strings; the   *)
(* substring and regular-expression tests of the source are tabulated on   *)
(* that universe (each table lists the strings on which the source's test  *)
(* succeeds).  Python None is the string "null" for scalar fields and a    *)
(* record with present = FALSE for the inventory check.                    *)
(***************************************************************************)
EXTENDS Integers, Sequences, FiniteSets, TLC

(***************************************************************************)
(* Bounds of the model.                                                    *)
(***************************************************************************)
MaxHistory == 1
\* Longest list of specialist entries handed to _build_user_summary alone.
MaxSummaryEntries == 2
\* Most lines in one part of a reply text.
MaxLines == 2
\* Most messages kept of a session's message list.
MaxMessages == 2

(***************************************************************************)
(* Program constants.                                                      *)
(***************************************************************************)
INSURANCE_ROUTE == "insurance_agent"
LEGACY_INSURANCE_ROUTE == "ergo_agent"
MaxSpecialistCalls == 3
RequirementsWindow == 5
\* The cap on customer turns of one session.
MaxClarifications == 10
ProductDetailsWindow == 12

(***************************************************************************)
(* The universe of texts.  Literals of the source are written in ASCII:    *)
(* a leading warning sign is dropped and a typographic apostrophe is       *)
(* spelled out.                                                            *)
(***************************************************************************)
PlainText == "looking for fridge"
ProceedText == "please proceed"
RejectText == "none of these internal options work, show more options"
ReferText == "refer to product specialist"
BudgetModelText == "i take model KIN86VFE0 for 1000 eur"
BudgetOnlyText == "budget 900 EUR"
ModelOnlyText == "model: RB34"
\* Texts of app.py: the greeting (774) and the fixed answers (662, 675, 756, 764).
SessionCapMessage == "I have reached the maximum of 10 conversation iterations for this session. Please click 'Reset Chat' to continue with a new request."
ConfigIncompleteMessage == "Configuration incomplete. Missing App Settings: AZURE_AI_PROJECT_ENDPOINT"
DemoModeMessage == "BuyBuddy (Demo): Thank you for your query about 'looking for fridge'. I can help you with information, specifications, and coordinate with our product and insurance teams as needed."
ApologyMessage == "I apologize, but I encountered an error: 'str' object has no attribute 'get'"
GreetingText == "Hello! I'm your BuyBuddy. I can help you with information, specifications, features, and more. I can also coordinate with our FridgeBuddy and InsuranceBuddy teams when needed. How can I assist you today?"
RegionFeatureText == "I live in Germany and want a smart fridge with ice maker"
AgentAskText == "shall i proceed and contact the specialist?"

DraftPlain == "Need more details before search."
DraftProduct == "I will consult the product specialist."
DraftInsurance == "Here is an insurance offer."

DefaultDetails == "Checked internal systems and internal knowledge base for suitable standard-niche options."
DefaultSummary == "Internal inventory check performed"
DetailsModels == "Bosch KIN86VFE0 in stock"
DetailsPositive == "available"
DetailsUnusable == "none"
DefaultNoMatchReason == "No concrete internal model recommendations were returned from the internal knowledge base in this turn."

DeferralNotice == "Internal inventory check is complete. Product specialist routing is deferred because internal matches are available. Escalation is allowed only if no internal match exists or you explicitly ask for the product specialist."
DeferralCustomerResponse == "I have completed the internal check first. I will escalate to the product specialist only if no internal match is available, or if you explicitly ask me to refer to the specialist."
ProductCapNotice == "Maximum product specialist iterations reached. Using best available information."
InsuranceCapNotice == "Maximum insurance specialist iterations reached."
ProductRetryText == "Product specialist did not return concrete model recommendations yet. Please retry once to fetch model-level availability."
InsuranceRetryText == "Insurance specialist did not return a complete quote yet. Please retry once."
ProductUnavailable == "Product specialist unavailable: request could not be built"
InsuranceUnavailable == "Insurance specialist unavailable: request could not be built"
CannotRoutePrefix == "Cannot route to insurance specialist: "
NotAgreedReason == "Product not yet agreed - cannot offer insurance"
NoBudgetReason == "Product price not confirmed - cannot calculate premium"
NoModelReason == "Product model not confirmed - please confirm selected model before insurance"
HandOffSentence == "I checked with our specialists and shared their responses below."
GenericAck == "I reviewed your request and prepared an update."
CoordinatedText == "I reviewed your request and coordinated with the relevant specialist."
AgentCustomerText == "Here are the options I found."

SystemRouteProduct == "proceeding to consult product specialist"
SystemRouteInsurance == "route to insurance specialist"
SystemPlain == "internal check complete"

ProductJson == "{recommended_models: [KIN86VFE0]}"
ProductJsonPretty == "{ recommended_models: [ KIN86VFE0 ] }"
InsuranceJson == "{coverage_options: [basic]}"
InsuranceJsonPretty == "{ coverage_options: [ basic ] }"
ProductPlaceholder == "Product Agent: Analyzing product-related query - '{specialist_request}'"
InsurancePlaceholder == "Insurance Specialist: Analyzing insurance query - '{specialist_request}'"
RequestPretty == "{ specialist_request }"
ProductErrorText == "Product Agent Error: request failed"
InsuranceErrorText == "Insurance Specialist Error: request failed"

(***************************************************************************)
(* Conversation history: a list of message dicts; NonDictEntry stands for  *)
(* a list element that is not a dict.                                      *)
(***************************************************************************)
UserMsg(text) == [role |-> "user", content |-> text]
AgentMsg(text) == [role |-> "agent", content |-> text]
NonDictEntry == [role |-> "nondict", content |-> "nondict"]

HistoryEntries ==
    { UserMsg(ProceedText), UserMsg(RejectText), UserMsg(BudgetModelText),
      AgentMsg(AgentAskText), NonDictEntry }

Histories == UNION { [1..n -> HistoryEntries] : n \in 0..MaxHistory }

LastN(s, n) == IF Len(s) <= n THEN s ELSE SubSeq(s, Len(s) - n + 1, Len(s))

\* _normalize_route_name: lower-cased route, legacy alias mapped to the
\* canonical insurance route.
normalize_route_name(route_name) ==
    IF route_name = LEGACY_INSURANCE_ROUTE THEN INSURANCE_ROUTE ELSE route_name

\* _latest_user_message_text: content of the last dict entry with role user,
\* "" when there is none.
RECURSIVE latest_user_message_text(_)
latest_user_message_text(history) ==
    IF Len(history) = 0 THEN ""
    ELSE LET item == history[Len(history)]
         IN  IF item.role = "user" THEN item.content
             ELSE latest_user_message_text(SubSeq(history, 1, Len(history) - 1))

\* Texts on which a rejection token ("none of these", "show more options", ...)
\* occurs.
RejectionTexts == { RejectText }

has_customer_rejected_internal_options(history) ==
    latest_user_message_text(history) \in RejectionTexts

\* Texts matched by an explicit-specialist pattern, a confirmation token
\* ("proceed", "go ahead", "escalate", ...) or a specialist term together
\* with an escalation-intent term.
ConfirmationTexts == { ProceedText, ReferText, AgentAskText }

has_customer_confirmed_specialist_routing(history) ==
    latest_user_message_text(history) \in ConfirmationTexts

(***************************************************************************)
(* agents/utilities: requirement extraction and validation.                *)
(* extract_requirements and extract_product_details call msg.get on every  *)
(* entry of their window, which raises on an entry that is not a dict.     *)
(***************************************************************************)
\* Texts on which the budget pattern (number + currency token) matches.
BudgetTexts == { BudgetModelText, BudgetOnlyText }

HasNonDict(history) == \E i \in 1..Len(history) : history[i].role = "nondict"

extract_requirements_raises(history) == HasNonDict(LastN(history, RequirementsWindow))

\* budget_match.group(0) on the lower-cased text ("null" for no match).
budget_of(text) ==
    CASE text = BudgetModelText -> "1000 eur"
      [] text = BudgetOnlyText -> "900 eur"
      [] OTHER -> "null"

\* The entries of the regions list and of the features list that occur in
\* the lower-cased text.
regions_in(text) == IF text = RegionFeatureText THEN { "germany" } ELSE {}

features_in(text) == IF text = RegionFeatureText THEN { "ice maker", "smart" } ELSE {}

RegionList == << "germany", "france", "austria", "switzerland", "europe" >>
FeatureList == << "ice maker", "water dispenser", "french door", "energy efficient", "smart" >>

\* str.title() on an entry of the regions list.
title_of(region) ==
    CASE region = "germany" -> "Germany"
      [] region = "france" -> "France"
      [] region = "austria" -> "Austria"
      [] region = "switzerland" -> "Switzerland"
      [] region = "europe" -> "Europe"
      [] OTHER -> region

\* The requirements dict as it is created: nothing known.
DefaultRequirements ==
    [budget |-> "null", region |-> "null", usage |-> "null",
     features |-> << >>, constraints |-> << >>]

\* The leftmost budget match of the joined window: the match of the first
\* message that has one.
RECURSIVE first_budget(_)
first_budget(recent) ==
    IF recent = << >> THEN "null"
    ELSE IF budget_of(Head(recent).content) # "null" THEN budget_of(Head(recent).content)
    ELSE first_budget(Tail(recent))

\* The first entry of the list, from position k on, that occurs in the window.
RECURSIVE first_region(_, _)
first_region(recent, k) ==
    IF k > Len(RegionList) THEN "null"
    ELSE IF \E i \in 1..Len(recent) : RegionList[k] \in regions_in(recent[i].content)
    THEN title_of(RegionList[k])
    ELSE first_region(recent, k + 1)

\* The entries of the features list that occur in the window, in list order.
RECURSIVE listed_features(_, _)
listed_features(recent, k) ==
    IF k > Len(FeatureList) THEN << >>
    ELSE IF \E i \in 1..Len(recent) : FeatureList[k] \in features_in(recent[i].content)
    THEN << FeatureList[k] >> \o listed_features(recent, k + 1)
    ELSE listed_features(recent, k + 1)

\* The scan of the last five messages; usage and constraints are never set.
scan_requirements(recent) ==
    [budget |-> first_budget(recent), region |-> first_region(recent, 1),
     usage |-> "null", features |-> listed_features(recent, 1), constraints |-> << >>]

\* A call that takes its window out of the list it was given.
extract_requirements_consuming(conversation_history) ==
    IF ~conversation_history.present \/ conversation_history.list = << >>
    THEN [raises |-> FALSE, requirements |-> DefaultRequirements,
          conversation_history |-> conversation_history]
    ELSE IF extract_requirements_raises(conversation_history.list)
    THEN [raises |-> TRUE, requirements |-> DefaultRequirements,
          conversation_history |-> conversation_history]
    ELSE [raises |-> FALSE,
          requirements |-> scan_requirements(LastN(conversation_history.list, RequirementsWindow)),
          conversation_history |-> [present |-> TRUE, list |-> << >>]]

\* extract_requirements on a history that is None (present FALSE) or a list:
\* the returned dict, or the exception of msg.get, and the argument as the
\* call leaves it.
extract_requirements(conversation_history) ==
    IF ~conversation_history.present \/ conversation_history.list = << >>
    THEN [raises |-> FALSE, requirements |-> DefaultRequirements,
          conversation_history |-> conversation_history]
    ELSE IF extract_requirements_raises(conversation_history.list)
    THEN [raises |-> TRUE, requirements |-> DefaultRequirements,
          conversation_history |-> conversation_history]
    ELSE [raises |-> FALSE,
          requirements |-> scan_requirements(LastN(conversation_history.list, RequirementsWindow)),
          conversation_history |-> conversation_history]

\* The budget field of extract_requirements ("null" for None).
extract_requirements_budget(history) ==
    first_budget(LastN(history, RequirementsWindow))

extract_product_details_raises(history) == HasNonDict(LastN(history, ProductDetailsWindow))

\* Lines 182-190: the texts of one message, its content (when not empty)
\* and the responses of its embedded specialist entries.
embedded_responses(msg) ==
    IF "specialist_responses" \in DOMAIN msg
    THEN [i \in 1..Len(msg.specialist_responses) |-> msg.specialist_responses[i].response]
    ELSE << >>

RECURSIVE text_parts(_)
text_parts(recent) ==
    IF recent = << >> THEN << >>
    ELSE (IF Head(recent).content # "" THEN << Head(recent).content >> ELSE << >>)
         \o embedded_responses(Head(recent)) \o text_parts(Tail(recent))

\* group(1) of the first model pattern, "model" followed by a name.
keyword_model(text) ==
    CASE text = BudgetModelText -> "KIN86VFE0"
      [] text = ModelOnlyText -> "RB34"
      [] OTHER -> "null"

\* group(1) of the model-code patterns, capitals followed by digits.
code_model(text) ==
    CASE text = BudgetModelText -> "KIN86VFE0"
      [] text = ProductJson -> "KIN86VFE0"
      [] text = ProductJsonPretty -> "KIN86VFE0"
      [] OTHER -> "null"

\* re.search of one pattern on the joined text: the match of the first part
\* that has one.
RECURSIVE first_keyword_model(_)
first_keyword_model(parts) ==
    IF parts = << >> THEN "null"
    ELSE IF keyword_model(Head(parts)) # "null" THEN keyword_model(Head(parts))
    ELSE first_keyword_model(Tail(parts))

RECURSIVE first_code_model(_)
first_code_model(parts) ==
    IF parts = << >> THEN "null"
    ELSE IF code_model(Head(parts)) # "null" THEN code_model(Head(parts))
    ELSE first_code_model(Tail(parts))

\* Lines 195-206: the patterns are tried in order.
product_model_in(parts) ==
    IF first_keyword_model(parts) # "null" THEN first_keyword_model(parts)
    ELSE first_code_model(parts)

\* Lines 208-222: the feature keywords that occur in the joined text, in
\* list order; of the texts of the universe one names features, and none
\* of its JSON texts carries key_features or a model's features.
ProductFeatureList ==
    << "ice maker", "water dispenser", "french door", "energy efficient", "energy-efficient",
       "no frost", "a+++", "nofrost", "biofresh", "smart" >>

RECURSIVE listed_product_features(_, _)
listed_product_features(parts, k) ==
    IF k > Len(ProductFeatureList) THEN << >>
    ELSE IF \E i \in 1..Len(parts) : ProductFeatureList[k] \in features_in(parts[i])
    THEN << ProductFeatureList[k] >> \o listed_product_features(parts, k + 1)
    ELSE listed_product_features(parts, k + 1)

\* The product_details dict as it is created.
DefaultProductDetails == [product_model |-> "null", key_features |-> << >>]

\* extract_product_details reading the whole list instead of its last twelve.
extract_product_details_unwindowed(conversation_history) ==
    IF conversation_history = << >>
    THEN [raises |-> FALSE, product_details |-> DefaultProductDetails]
    ELSE IF HasNonDict(conversation_history)
    THEN [raises |-> TRUE, product_details |-> DefaultProductDetails]
    ELSE LET parts == text_parts(conversation_history)
             extracted == listed_product_features(parts, 1)
         IN  [raises |-> FALSE,
              product_details |->
                [product_model |-> product_model_in(parts),
                 key_features |->
                    IF extracted # << >> THEN extracted
                    ELSE scan_requirements(LastN(conversation_history,
                                                 RequirementsWindow)).features]]

\* extract_product_details: the returned dict, or the exception of msg.get.
extract_product_details(conversation_history) ==
    IF conversation_history = << >>
    THEN [raises |-> FALSE, product_details |-> DefaultProductDetails]
    ELSE IF extract_product_details_raises(conversation_history)
    THEN [raises |-> TRUE, product_details |-> DefaultProductDetails]
    ELSE LET parts == text_parts(LastN(conversation_history, ProductDetailsWindow))
             extracted == listed_product_features(parts, 1)
         IN  [raises |-> FALSE,
              product_details |->
                [product_model |-> product_model_in(parts),
                 key_features |->
                    IF extracted # << >> THEN extracted
                    ELSE scan_requirements(LastN(conversation_history,
                                                 RequirementsWindow)).features]]

\* The product_model field of extract_product_details ("null" for None).
extract_product_details_model(history) ==
    product_model_in(text_parts(LastN(history, ProductDetailsWindow)))

\* validate_insurance_context: (is_valid, error_msg), or an exception that
\* escapes from one of the two extractors.
validate_insurance_context(state, history) ==
    IF state.product_status # "agreed"
    THEN [raises |-> FALSE, valid |-> FALSE, error_msg |-> NotAgreedReason]
    ELSE IF extract_requirements_raises(history)
    THEN [raises |-> TRUE, valid |-> FALSE, error_msg |-> "null"]
    ELSE IF extract_requirements_budget(history) = "null"
    THEN [raises |-> FALSE, valid |-> FALSE, error_msg |-> NoBudgetReason]
    ELSE IF extract_product_details_raises(history)
    THEN [raises |-> TRUE, valid |-> FALSE, error_msg |-> "null"]
    ELSE IF extract_product_details_model(history) = "null"
    THEN [raises |-> FALSE, valid |-> FALSE, error_msg |-> NoModelReason]
    ELSE [raises |-> FALSE, valid |-> TRUE, error_msg |-> "null"]

\* validate_product_context: budget, region or feature present.
validate_product_context_raises(history) == extract_requirements_raises(history)

validate_product_context(history) ==
    LET requirements == scan_requirements(LastN(history, RequirementsWindow))
    IN  \/ requirements.budget # "null"
        \/ requirements.region # "null"
        \/ Len(requirements.features) > 0

\* state.get("overall_status", "intake"): the default for a state without the key.
overall_status_of(state) ==
    IF "overall_status" \in DOMAIN state THEN state.overall_status ELSE "intake"

\* The lookup without its entry for a stopped conversation.
map_state_to_phase_unstopped(state) ==
    CASE overall_status_of(state) = "intake" -> 1
      [] overall_status_of(state) = "inventory_check" -> 2
      [] overall_status_of(state) = "product_negotiation" -> 3
      [] overall_status_of(state) = "insurance_phase" -> 4
      [] overall_status_of(state) = "ready_to_checkout" -> 5
      [] OTHER -> 1

\* map_state_to_phase: lookup of overall_status, 1 for an unknown status.
map_state_to_phase(state) ==
    CASE overall_status_of(state) = "intake" -> 1
      [] overall_status_of(state) = "inventory_check" -> 2
      [] overall_status_of(state) = "product_negotiation" -> 3
      [] overall_status_of(state) = "insurance_phase" -> 4
      [] overall_status_of(state) = "ready_to_checkout" -> 5
      [] overall_status_of(state) = "stopped" -> 5
      [] OTHER -> 1

(***************************************************************************)
(* Inventory check payloads.  internal_match_found is "true", "false" or   *)
(* "null"; internal_options is the list of the options' model names.       *)
(***************************************************************************)
NoInventoryCheck ==
    [present |-> FALSE, checked |-> FALSE, phase |-> 0, summary |-> "", details |-> "",
     internal_match_found |-> "null", internal_options |-> << >>,
     no_match_reason |-> "", first_check |-> FALSE]

\* _build_inventory_check_payload
build_inventory_check_payload(state, first_check) ==
    [present |-> TRUE, checked |-> TRUE, phase |-> map_state_to_phase(state),
     summary |-> DefaultSummary, details |-> DefaultDetails,
     internal_match_found |-> "null", internal_options |-> << >>,
     no_match_reason |-> "", first_check |-> first_check]

\* _details_indicate_internal_match: a positive token and no negative token.
details_indicate_internal_match(details) == details \in { DetailsModels, DetailsPositive }

\* _extract_internal_options_from_details: one option per segment on which
\* the "<line> <model>" pattern matches.  The pattern also matches the first
\* two words of the default details sentence.
extract_internal_options_from_details(details) ==
    CASE details = DetailsModels -> << "Bosch KIN86VFE0" >>
      [] details = DefaultDetails -> << "Checked INTERNAL" >>
      [] OTHER -> << >>

\* _default_internal_model_options
default_internal_model_options == << "Series KIN86VFE0", "Series KI86NADD0", "Series KI7863SE0" >>

\* _normalize_inventory_check_payload
normalize_inventory_check_payload(inventory_check, state) ==
    LET ic == IF inventory_check.present THEN inventory_check
              ELSE build_inventory_check_payload(state, ~state.inventory_checked)
        details == IF ic.details = "" THEN DefaultDetails ELSE ic.details
        summary == IF ic.summary = "" THEN DefaultSummary ELSE ic.summary
        extracted == IF ic.internal_options # << >> THEN ic.internal_options
                     ELSE extract_internal_options_from_details(details)
        options == IF extracted = << >> /\ details_indicate_internal_match(details)
                   THEN default_internal_model_options ELSE extracted
        match == IF ic.internal_match_found \in {"true", "false"} THEN ic.internal_match_found
                 ELSE IF options # << >> THEN "true"
                 ELSE IF details_indicate_internal_match(details) THEN "true"
                 ELSE "null"
        reason == IF match = "false" /\ ic.no_match_reason = ""
                  THEN DefaultNoMatchReason ELSE ic.no_match_reason
    IN  [present |-> TRUE, checked |-> ic.checked, phase |-> ic.phase,
         summary |-> summary, details |-> details,
         internal_match_found |-> match, internal_options |-> options,
         no_match_reason |-> reason, first_check |-> ic.first_check]

\* The gate without its outcome condition: any attempted inventory check
\* opens it.
gate_on_attempt_only(state, inventory_check, history) ==
    state.inventory_checked \/ (inventory_check.present /\ inventory_check.checked)

\* _has_failed_internal_option_agreement: the inventory-first gate.
has_failed_internal_option_agreement(state, inventory_check, history) ==
    LET inventory_attempted == state.inventory_checked
                                 \/ (inventory_check.present /\ inventory_check.checked)
    IN  /\ inventory_attempted
        /\ \/ (inventory_check.present /\ inventory_check.internal_match_found = "false")
           \/ has_customer_confirmed_specialist_routing(history)

(***************************************************************************)
(* Specialist entries and the customer summary.                            *)
(***************************************************************************)
Entry(agent, response) == [agent |-> agent, response |-> response]

\* Agent labels whose lower-cased form contains "system".
SystemAgentNames == { "System", "system" }
\* Agent labels whose lower-cased form contains "product specialist".
ProductSpecialistNames == { "Product Specialist", "product specialist" }
\* Agent labels whose lower-cased form contains "insurance specialist".
InsuranceSpecialistNames == { "Insurance Specialist" }

\* _format_specialist_response: a JSON object found in the text (the whole
\* text, or its outermost brace span) is pretty-printed; other text is
\* passed through.
format_specialist_response(raw) ==
    CASE raw = ProductJson -> ProductJsonPretty
      [] raw = InsuranceJson -> InsuranceJsonPretty
      [] raw \in { ProductPlaceholder, InsurancePlaceholder } -> RequestPretty
      [] OTHER -> raw

\* _normalize_specialist_entries
normalize_specialist_entry(entry) ==
    CASE entry.agent \in ProductSpecialistNames ->
            Entry(entry.agent, IF format_specialist_response(entry.response) = ""
                               THEN ProductRetryText
                               ELSE format_specialist_response(entry.response))
      [] entry.agent \in InsuranceSpecialistNames ->
            Entry(entry.agent, IF format_specialist_response(entry.response) = ""
                               THEN InsuranceRetryText
                               ELSE format_specialist_response(entry.response))
      [] entry.agent \in SystemAgentNames -> Entry("System", entry.response)
      [] OTHER -> entry

normalize_specialist_entries(entries) ==
    [i \in 1..Len(entries) |-> normalize_specialist_entry(entries[i])]

\* _has_non_system_specialist_response
has_non_system_specialist_response(entries) ==
    \E i \in 1..Len(entries) :
        entries[i].agent # "" /\ entries[i].agent \notin SystemAgentNames

\* _has_product_specialist_response
has_product_specialist_response(entries) ==
    \E i \in 1..Len(entries) : entries[i].agent \in ProductSpecialistNames

\* System texts that contain one of the product-routing tokens
\* ("product specialist", "route to product_agent", ...).
ProductRoutingTexts ==
    { SystemRouteProduct, DeferralNotice, ProductCapNotice, ProductUnavailable }
\* System texts that contain one of the insurance-routing tokens.
InsuranceRoutingTexts ==
    { SystemRouteInsurance, InsuranceCapNotice, InsuranceUnavailable }

\* _infer_routing_from_system_messages
infer_routing_from_system_messages(entries, state) ==
    LET system_text == { entries[i].response : i \in
                            { j \in 1..Len(entries) : entries[j].agent \in SystemAgentNames } }
        state_routing == normalize_route_name(state.routing)
    IN  IF system_text \cap ProductRoutingTexts # {} THEN "product_agent"
        ELSE IF system_text \cap InsuranceRoutingTexts # {} THEN INSURANCE_ROUTE
        ELSE IF state_routing \in {"product_agent", INSURANCE_ROUTE} THEN state_routing
        ELSE "none"

\* _sanitize_customer_response: a reply carrying a JSON blob is replaced by
\* a fixed sentence, other text is passed through stripped.
sanitize_customer_response(text) ==
    IF text \in { ProductJson, InsuranceJson }
    THEN "I reviewed your request and coordinated with our specialists."
    ELSE text

\* Texts with surrounding white space, and text of white space only.
BlankText == "   "
PaddedDraft == "  Need more details before search. "
PaddedNotice == " internal check complete  "
PaddedSystem == " System "

\* str.strip() on the texts of the model.
strip_text(text) ==
    IF text = BlankText THEN ""
    ELSE IF text = PaddedDraft THEN DraftPlain
    ELSE IF text = PaddedNotice THEN SystemPlain
    ELSE IF text = PaddedSystem THEN "System"
    ELSE text

\* _build_user_summary
build_user_summary(base_text, entries) ==
    LET base_message == strip_text(base_text)
        non_system == { i \in 1..Len(entries) : strip_text(entries[i].agent) # "System" }
        system_msgs == { i \in 1..Len(entries) :
                            /\ strip_text(entries[i].agent) = "System"
                            /\ strip_text(entries[i].response) # "" }
        first == CHOOSE i \in system_msgs : \A j \in system_msgs : i <= j
    IN  IF entries = << >> THEN base_message
        ELSE IF base_message # "" THEN base_message
        ELSE IF non_system # {} THEN HandOffSentence
        ELSE IF system_msgs # {} THEN strip_text(entries[first].response)
        ELSE GenericAck

\* _ensure_inventory_check_payload, on the state and inventory_check of a
\* result payload.
ensure_inventory_check_payload(payload, require_check) ==
    LET st == payload.state
        ic == payload.inventory_check
        inventory_checked == ic.present /\ ic.checked
    IN  IF ~require_check /\ ~st.inventory_checked /\ inventory_checked
        THEN payload
        ELSE IF require_check /\ ~inventory_checked
        THEN [payload EXCEPT
                !.inventory_check = normalize_inventory_check_payload(
                    build_inventory_check_payload(st, ~st.inventory_checked), st),
                !.state = [st EXCEPT !.inventory_checked = TRUE]]
        ELSE LET ic2 == IF st.inventory_checked /\ ~inventory_checked
                        THEN normalize_inventory_check_payload(
                                 build_inventory_check_payload(st, TRUE), st)
                        ELSE ic
             IN  [payload EXCEPT
                    !.inventory_check = IF ic2.present
                                        THEN normalize_inventory_check_payload(ic2, st)
                                        ELSE ic2]

\* The validity test without the check of the state object.
is_valid_without_state(parsed) ==
    /\ parsed.is_dict
    /\ parsed.payload.message_type = "orchestrator_result"

\* _is_valid_orchestrator_result, on the parsed reply.
is_valid_orchestrator_result(parsed) ==
    /\ parsed.is_dict
    /\ parsed.payload.message_type = "orchestrator_result"
    /\ parsed.payload.has_state

\* _build_agent_result_payload
build_agent_result_payload(parsed, fallback_state) ==
    LET st == IF parsed.has_state THEN parsed.state ELSE fallback_state
        entries == normalize_specialist_entries(parsed.specialist_responses)
        ic0 == IF ~parsed.inventory_check.present /\ st.inventory_checked
               THEN build_inventory_check_payload(st, TRUE)
               ELSE parsed.inventory_check
        ic == IF ic0.present THEN normalize_inventory_check_payload(ic0, st) ELSE ic0
        cr0 == sanitize_customer_response(parsed.customer_response)
        cr == IF cr0 = "" THEN CoordinatedText ELSE cr0
    IN  [state |-> st,
         routing |-> IF parsed.routing = "missing" THEN st.routing ELSE parsed.routing,
         inventory_check |-> ic,
         specialist_responses |-> entries,
         customer_response |-> build_user_summary(cr, entries)]

(***************************************************************************)
(* Specialist adapters.  A handle is None ("none"), a pair whose agent is  *)
(* None ("placeholder") or a pair with a live agent ("live").  The outcome *)
(* of the opaque request is "ok" or "fail"; "raise" is an exception raised *)
(* at the call site while the request is built, before the adapter runs.   *)
(***************************************************************************)
SpecialistHandles == { "none", "placeholder", "live" }
SpecialistOutcomes == { "ok", "fail", "raise" }

\* get_product_response
get_product_response(handle, outcome) ==
    IF handle = "placeholder" THEN ProductPlaceholder
    ELSE IF outcome = "ok" THEN ProductJson
    ELSE ProductErrorText

\* get_insurance_response
get_insurance_response(handle, outcome) ==
    IF handle = "placeholder" THEN InsurancePlaceholder
    ELSE IF outcome = "ok" THEN InsuranceJson
    ELSE InsuranceErrorText

\* iteration_counts.get(key, 0)
CountOf(counts, key) == IF key \in DOMAIN counts THEN counts[key] ELSE 0

\* iteration_counts[key] = iteration_counts.get(key, 0) + 1
Increment(counts, key) ==
    [k \in DOMAIN counts \cup {key} |->
        IF k = key THEN CountOf(counts, key) + 1 ELSE counts[k]]

\* The product specialist call with one retry after a failed request.
call_product_specialist_retry(entries, counts, calls, handle, outcome) ==
    IF outcome = "raise"
    THEN [entries |-> Append(entries, Entry("System", ProductUnavailable)),
          counts |-> counts, calls |-> calls, appended |-> FALSE, attempted |-> TRUE]
    ELSE [entries |-> Append(entries, Entry("Product Specialist",
                        format_specialist_response(get_product_response(handle, outcome)))),
          counts |-> Increment(counts, "product_agent_calls"),
          calls |-> IF outcome = "fail" THEN calls \o << "product", "product" >>
                    ELSE Append(calls, "product"),
          appended |-> TRUE, attempted |-> TRUE]

\* The try block around the product specialist call (both paths): the
\* entry appended, the counter and the list of adapters invoked this turn.
call_product_specialist(entries, counts, calls, handle, outcome) ==
    IF outcome = "raise"
    THEN [entries |-> Append(entries, Entry("System", ProductUnavailable)),
          counts |-> counts, calls |-> calls, appended |-> FALSE, attempted |-> TRUE]
    ELSE LET formatted == format_specialist_response(get_product_response(handle, outcome))
         IN  [entries |-> Append(entries, Entry("Product Specialist",
                                    IF formatted = "" THEN ProductRetryText ELSE formatted)),
              counts |-> Increment(counts, "product_agent_calls"),
              calls |-> Append(calls, "product"), appended |-> TRUE, attempted |-> TRUE]

\* The try block around the insurance specialist call (both paths).
call_insurance_specialist(entries, counts, calls, handle, outcome) ==
    IF outcome = "raise"
    THEN [entries |-> Append(entries, Entry("System", InsuranceUnavailable)),
          counts |-> counts, calls |-> calls, appended |-> FALSE, attempted |-> TRUE]
    ELSE [entries |-> Append(entries, Entry("Insurance Specialist",
                        format_specialist_response(get_insurance_response(handle, outcome)))),
          counts |-> Increment(counts, "insurance_agent_calls"),
          calls |-> Append(calls, "insurance"), appended |-> TRUE, attempted |-> TRUE]

(***************************************************************************)
(* orchestrate_customer_packet, deterministic fallback path (lines 935 to  *)
(* 1127).  calls is the list of adapters already invoked in this turn.     *)
(***************************************************************************)
NoResult ==
    [state |-> [product_status |-> "", overall_status |-> "", inventory_checked |-> FALSE,
                routing |-> ""],
     routing |-> "", inventory_check |-> NoInventoryCheck,
     specialist_responses |-> << >>, customer_response |-> ""]

Raised(packet, counts, calls) ==
    [raised |-> TRUE, path |-> "fallback", result |-> NoResult, counts |-> counts,
     calls |-> calls, attempted |-> FALSE, packet_state |-> packet.state]

\* user inputs containing "product specialist", "refer to product", ...
ExplicitProductRequestTexts == { ReferText }
\* drafts containing "product specialist" or "external catalog"
ProductDraftTexts == { DraftProduct }
\* drafts containing "insurance specialist" or "insurance offer"
InsuranceDraftTexts == { DraftInsurance }

\* Lines 949-989: the route derived from the routing hint, the user input,
\* the state and the draft.
fallback_routing(packet, history) ==
    LET state == packet.state
        hint == normalize_route_name(packet.routing_hint)
        explicit_product_request == packet.latest_user_input \in ExplicitProductRequestTexts
        explicit_product_escalation == has_customer_confirmed_specialist_routing(history)
        r1 == IF explicit_product_request \/ explicit_product_escalation
              THEN "product_agent" ELSE "none"
    IN  IF hint # "none" THEN hint
        ELSE IF /\ r1 = "none"
                /\ state.overall_status # "intake"
                /\ state.product_status \in {"searching", "proposed"}
                /\ validate_product_context(history)
                /\ packet.customer_visible_draft \in ProductDraftTexts
        THEN "product_agent"
        ELSE IF /\ r1 = "none"
                /\ state.product_status = "agreed"
                /\ packet.customer_visible_draft \in InsuranceDraftTexts
        THEN INSURANCE_ROUTE
        ELSE r1

\* Line 980 is reached, and validate_product_context raises there.
fallback_routing_raises(packet, history) ==
    /\ normalize_route_name(packet.routing_hint) = "none"
    /\ packet.latest_user_input \notin ExplicitProductRequestTexts
    /\ ~has_customer_confirmed_specialist_routing(history)
    /\ packet.state.overall_status # "intake"
    /\ packet.state.product_status \in {"searching", "proposed"}
    /\ validate_product_context_raises(history)

\* The fallback path without lines 1001-1002.
fallback_gate_skipped(routing, state, inventory_check, history) == routing

\* Lines 1001-1002: the inventory-first gate on the fallback path.
fallback_gate(routing, state, inventory_check, history) ==
    IF routing = "product_agent"
       /\ ~has_failed_internal_option_agreement(state, inventory_check, history)
    THEN "none" ELSE routing

\* The product specialist block with a cap that lets one more call through.
fallback_product_block_late(routing, counts, calls, handle, outcome) ==
    IF routing = "product_agent" /\ handle # "none"
    THEN IF CountOf(counts, "product_agent_calls") > MaxSpecialistCalls
         THEN [entries |-> << Entry("System", ProductCapNotice) >>,
               counts |-> counts, calls |-> calls, appended |-> FALSE, attempted |-> FALSE]
         ELSE call_product_specialist(<< >>, counts, calls, handle, outcome)
    ELSE [entries |-> << >>, counts |-> counts, calls |-> calls, appended |-> FALSE,
          attempted |-> FALSE]

\* Lines 1006-1054: the product specialist block.
fallback_product_block(routing, counts, calls, handle, outcome) ==
    IF routing = "product_agent" /\ handle # "none"
    THEN IF CountOf(counts, "product_agent_calls") >= MaxSpecialistCalls
         THEN [entries |-> << Entry("System", ProductCapNotice) >>,
               counts |-> counts, calls |-> calls, appended |-> FALSE, attempted |-> FALSE]
         ELSE call_product_specialist(<< >>, counts, calls, handle, outcome)
    ELSE [entries |-> << >>, counts |-> counts, calls |-> calls, appended |-> FALSE,
          attempted |-> FALSE]

\* Lines 1056-1106: the insurance specialist block (validation not raising).
fallback_insurance_block(routing, state, history, prev, handle, outcome) ==
    IF routing = INSURANCE_ROUTE /\ handle # "none"
    THEN LET v == validate_insurance_context(state, history)
         IN  IF ~v.valid
             THEN [prev EXCEPT !.entries = Append(prev.entries,
                        Entry("System", CannotRoutePrefix \o v.error_msg))]
             ELSE IF CountOf(prev.counts, "insurance_agent_calls") >= MaxSpecialistCalls
             THEN [prev EXCEPT !.entries = Append(prev.entries,
                        Entry("System", InsuranceCapNotice))]
             ELSE call_insurance_specialist(prev.entries, prev.counts, prev.calls,
                                            handle, outcome)
    ELSE prev

\* Lines 1108-1127: the result of the fallback path.
fallback_result(packet, state, inventory_check, routing, ib) ==
    LET payload == [state |-> state, routing |-> routing,
                    inventory_check |-> inventory_check,
                    specialist_responses |-> ib.entries,
                    customer_response |->
                        build_user_summary(packet.customer_visible_draft, ib.entries)]
        should_require_inventory ==
            routing = "product_agent" \/ has_product_specialist_response(ib.entries)
    IN  ensure_inventory_check_payload(payload, should_require_inventory)

\* What the fallback path hands back: the result, the caller's counters and
\* the state dict of the packet, which the path writes to.
fallback_outcome(result, ib) ==
    [raised |-> FALSE, path |-> "fallback", result |-> result,
     counts |-> ib.counts, calls |-> ib.calls, attempted |-> ib.attempted,
     packet_state |-> result.state]

\* Lines 1004-1127: the specialist blocks, once the route has passed the gate.
fallback_gated(packet, history, counts, calls, product_agent, insurance_agent, outcome, state, inventory_check, routing) ==
    IF /\ routing = INSURANCE_ROUTE /\ insurance_agent # "none"
       /\ validate_insurance_context(state, history).raises
    THEN Raised(packet, counts, calls)
    ELSE fallback_outcome(
             fallback_result(packet, state, inventory_check, routing,
                 fallback_insurance_block(routing, state, history,
                     fallback_product_block(routing, counts, calls, product_agent, outcome),
                     insurance_agent, outcome)),
             fallback_insurance_block(routing, state, history,
                 fallback_product_block(routing, counts, calls, product_agent, outcome),
                 insurance_agent, outcome))

\* Lines 991-1002: the inventory check of the turn and the gate.
fallback_routed(packet, history, counts, calls, product_agent, insurance_agent, outcome, routing0) ==
    LET state0 == packet.state
        ic0 == IF state0.inventory_checked
               THEN build_inventory_check_payload(state0, TRUE) ELSE NoInventoryCheck
        build_now == routing0 = "product_agent" /\ ~ic0.present
        ic1 == IF build_now
               THEN build_inventory_check_payload(state0, ~state0.inventory_checked) ELSE ic0
        state1 == IF build_now THEN [state0 EXCEPT !.inventory_checked = TRUE] ELSE state0
    IN  fallback_gated(packet, history, counts, calls, product_agent, insurance_agent,
                       outcome, state1, ic1, fallback_gate(routing0, state1, ic1, history))

fallback_path(packet, history, counts, calls, product_agent, insurance_agent, outcome) ==
    IF fallback_routing_raises(packet, history) THEN Raised(packet, counts, calls)
    ELSE fallback_routed(packet, history, counts, calls, product_agent, insurance_agent,
                         outcome, fallback_routing(packet, history))

(***************************************************************************)
(* orchestrate_customer_packet, orchestrator-agent path (lines 766-933).   *)
(* An exception that escapes to the outer except clause sends the turn to  *)
(* the fallback path with the counters and calls made so far.              *)
(***************************************************************************)
\* Lines 784-791: the effective route.
effective_routing(payload, history, product_agent) ==
    LET routing_from_result == normalize_route_name(payload.routing)
        inferred_routing == infer_routing_from_system_messages(
                                payload.specialist_responses, payload.state)
        explicit_product_escalation == has_customer_confirmed_specialist_routing(history)
    IN  IF explicit_product_escalation /\ product_agent # "none" THEN "product_agent"
        ELSE IF routing_from_result \in {"product_agent", INSURANCE_ROUTE}
        THEN routing_from_result
        ELSE inferred_routing

\* Lines 829-839: the condition of the product specialist call.
primary_product_guard(has_specialist, routing, product_agent, counts, agreement_failed) ==
    /\ ~has_specialist
    /\ routing = "product_agent"
    /\ product_agent # "none"
    /\ CountOf(counts, "product_agent_calls") < MaxSpecialistCalls
    /\ agreement_failed

\* Lines 879-884: the condition of the insurance specialist block.
primary_insurance_guard(entries, routing, insurance_agent, counts) ==
    /\ ~has_non_system_specialist_response(entries)
    /\ routing = INSURANCE_ROUTE
    /\ insurance_agent # "none"
    /\ CountOf(counts, "insurance_agent_calls") < MaxSpecialistCalls

\* What the orchestrator-agent path hands back.
agent_outcome(packet, result, counts, calls, attempted) ==
    [raised |-> FALSE, path |-> "agent", result |-> result, counts |-> counts,
     calls |-> calls, attempted |-> attempted, packet_state |-> packet.state]

\* Lines 913-929: the result after the insurance specialist call.
primary_insured(packet, rp, ic) ==
    LET merged == [rp EXCEPT !.specialist_responses = ic.entries,
                             !.customer_response =
                                 IF ic.appended
                                 THEN build_user_summary(rp.customer_response, ic.entries)
                                 ELSE rp.customer_response]
    IN  agent_outcome(packet,
            IF ic.appended THEN ensure_inventory_check_payload(merged, TRUE) ELSE merged,
            ic.counts, ic.calls, TRUE)

\* Lines 879-931: the insurance specialist block.
primary_insurance(packet, history, product_agent, insurance_agent, outcome, routing, rp, pb) ==
    LET merged == [rp EXCEPT !.specialist_responses = pb.entries,
                             !.customer_response =
                                 IF pb.appended
                                 THEN build_user_summary(rp.customer_response, pb.entries)
                                 ELSE rp.customer_response]
        v == validate_insurance_context(rp.state, history)
    IN  IF ~primary_insurance_guard(pb.entries, routing, insurance_agent, pb.counts)
        THEN agent_outcome(packet, merged, pb.counts, pb.calls, pb.attempted)
        ELSE IF v.raises
        THEN fallback_path(packet, history, pb.counts, pb.calls,
                           product_agent, insurance_agent, outcome)
        ELSE IF ~v.valid
        THEN agent_outcome(packet,
                 [merged EXCEPT !.specialist_responses =
                     Append(pb.entries, Entry("System", CannotRoutePrefix \o v.error_msg))],
                 pb.counts, pb.calls, pb.attempted)
        ELSE primary_insured(packet, merged,
                 call_insurance_specialist(pb.entries, pb.counts, pb.calls,
                                           insurance_agent, outcome))

\* The gate with a deferral that adds its notice to the entries the agent
\* supplied instead of replacing them.
primary_gated_appending(packet, history, counts, product_agent, insurance_agent, outcome, has_specialist, routing, rp) ==
    LET agreement_failed == has_failed_internal_option_agreement(
                                rp.state, rp.inventory_check, history)
        deferred == routing = "product_agent" /\ ~agreement_failed
        entries == IF deferred
                   THEN Append(rp.specialist_responses, Entry("System", DeferralNotice))
                   ELSE rp.specialist_responses
    IN  primary_insurance(packet, history, product_agent, insurance_agent, outcome, routing,
            IF deferred
            THEN [rp EXCEPT !.routing = "none",
                            !.specialist_responses = entries,
                            !.customer_response = DeferralCustomerResponse]
            ELSE rp,
            IF primary_product_guard(has_specialist, routing, product_agent, counts,
                                     agreement_failed)
            THEN call_product_specialist(entries, counts, << >>, product_agent, outcome)
            ELSE [entries |-> entries, counts |-> counts, calls |-> << >>,
                  appended |-> FALSE, attempted |-> FALSE])

\* Lines 802-877: the inventory-first gate, the deferral and the product
\* specialist block.
primary_gated(packet, history, counts, product_agent, insurance_agent, outcome, has_specialist, routing, rp) ==
    LET agreement_failed == has_failed_internal_option_agreement(
                                rp.state, rp.inventory_check, history)
        deferred == routing = "product_agent" /\ ~agreement_failed
        entries == IF deferred THEN << Entry("System", DeferralNotice) >>
                   ELSE rp.specialist_responses
    IN  primary_insurance(packet, history, product_agent, insurance_agent, outcome, routing,
            IF deferred
            THEN [rp EXCEPT !.routing = "none",
                            !.specialist_responses = << Entry("System", DeferralNotice) >>,
                            !.customer_response = DeferralCustomerResponse]
            ELSE rp,
            IF primary_product_guard(has_specialist, routing, product_agent, counts,
                                     agreement_failed)
            THEN call_product_specialist(entries, counts, << >>, product_agent, outcome)
            ELSE [entries |-> entries, counts |-> counts, calls |-> << >>,
                  appended |-> FALSE, attempted |-> FALSE])

\* Lines 777-800: the effective route and the inventory check it requires.
primary_routed(packet, history, counts, product_agent, insurance_agent, outcome, rp, routing) ==
    primary_gated(packet, history, counts, product_agent, insurance_agent, outcome,
        has_non_system_specialist_response(rp.specialist_responses), routing,
        ensure_inventory_check_payload(
            IF has_customer_confirmed_specialist_routing(history) /\ product_agent # "none"
            THEN [rp EXCEPT !.routing = "product_agent"] ELSE rp,
            routing = "product_agent"
              \/ has_product_specialist_response(rp.specialist_responses)))

\* Lines 776-791: the result payload built from the parsed reply.
primary_parsed(packet, history, counts, product_agent, insurance_agent, outcome, rp) ==
    primary_routed(packet, history, counts, product_agent, insurance_agent, outcome, rp,
                   effective_routing(rp, history, product_agent))

primary_path(packet, history, counts, product_agent, insurance_agent, parsed, outcome) ==
    primary_parsed(packet, history, counts, product_agent, insurance_agent, outcome,
                   build_agent_result_payload(parsed, packet.state))

(***************************************************************************)
(* The orchestrator agent's reply.  kind is "none" (no agent or no client  *)
(* configured), "raises" (get_orchestrator_response raises), or "reply";   *)
(* a reply is plain text or JSON text carrying the object parsed.          *)
(***************************************************************************)
\* _extract_json_dict: the object carried by JSON text, None for plain text.
extract_json_dict(reply) == [is_dict |-> reply.format = "json", payload |-> reply.object]

\* orchestrate_customer_packet
orchestrate_customer_packet(packet, orchestrator, product_agent, insurance_agent, history, counts, outcome) ==
    IF /\ orchestrator.kind = "reply"
       /\ is_valid_orchestrator_result(extract_json_dict(orchestrator.reply))
    THEN primary_path(packet, history, counts, product_agent, insurance_agent,
                      extract_json_dict(orchestrator.reply).payload, outcome)
    ELSE fallback_path(packet, history, counts, << >>, product_agent, insurance_agent,
                       outcome)

(***************************************************************************)
(* Inputs of a turn.                                                       *)
(***************************************************************************)
\* routing_context.state of the packet; its routing repeats the hint.
PacketState(ps, os, checked, hint) ==
    [product_status |-> ps, overall_status |-> os, inventory_checked |-> checked,
     routing |-> hint]

StatusProfiles ==
    { <<"collecting", "intake">>, <<"searching", "intake">>,
      <<"searching", "inventory_check">>, <<"agreed", "insurance_phase">> }

\* Packets with a specialist hint: the fallback path does not read the user
\* input, and reads the draft only as the base of the customer response.
HintedPackets ==
    { [state |-> PacketState(p[1], p[2], c, h), routing_hint |-> h,
       latest_user_input |-> PlainText, customer_visible_draft |-> DraftPlain] :
         p \in StatusProfiles, c \in BOOLEAN,
         h \in {"product_agent", INSURANCE_ROUTE, LEGACY_INSURANCE_ROUTE} }

UnhintedPackets ==
    { [state |-> PacketState(p[1], p[2], c, "none"), routing_hint |-> "none",
       latest_user_input |-> u, customer_visible_draft |-> d] :
         p \in StatusProfiles, c \in BOOLEAN, u \in {PlainText, ReferText},
         d \in {DraftPlain, DraftProduct, DraftInsurance} }

Packets == HintedPackets \cup UnhintedPackets

\* Packets sent along with a usable orchestrator result, which read the
\* packet only when an exception sends the turn to the fallback path.
AgentPathPackets ==
    { [state |-> PacketState("agreed", "insurance_phase", TRUE, INSURANCE_ROUTE),
       routing_hint |-> INSURANCE_ROUTE, latest_user_input |-> PlainText,
       customer_visible_draft |-> DraftPlain],
      [state |-> PacketState("collecting", "intake", FALSE, "none"),
       routing_hint |-> "none", latest_user_input |-> PlainText,
       customer_visible_draft |-> DraftPlain] }

\* (product_agent, insurance_agent) handles passed by the caller.
HandlePairs ==
    { <<"none", "none">>, <<"placeholder", "placeholder">>, <<"live", "live">> }

\* The handles with the outcomes a specialist request can have on them: no
\* request is made on an absent handle, and the adapter answers a handle
\* without agent by its placeholder text, whatever the backend would do.
Backends ==
    { b \in HandlePairs \X SpecialistOutcomes :
        /\ b[1][1] = "none" => b[2] = "ok"
        /\ b[1][1] = "placeholder" => b[2] # "fail" }

\* Inventory checks reported by the orchestrator agent.
ReportedCheck(checked, details, match, options) ==
    [present |-> TRUE, checked |-> checked, phase |-> 2, summary |-> "",
     details |-> details, internal_match_found |-> match, internal_options |-> options,
     no_match_reason |-> "", first_check |-> TRUE]

ReportedInventoryChecks ==
    { NoInventoryCheck,
      ReportedCheck(TRUE, DetailsUnusable, "false", << >>),
      ReportedCheck(TRUE, DetailsModels, "true", << "Bosch KIN86VFE0" >>),
      ReportedCheck(TRUE, DetailsUnusable, "true", << >>),
      ReportedCheck(FALSE, DetailsPositive, "null", << >>) }

ReportedEntries ==
    { << >>,
      << Entry("system", SystemRouteProduct) >>,
      << Entry("system", SystemRouteInsurance) >>,
      << Entry("Product Specialist", ProductJson) >> }

\* State objects reported by the orchestrator agent.
ReportedState(ps, checked, r) ==
    [product_status |-> ps, overall_status |-> "inventory_check",
     inventory_checked |-> checked, routing |-> r]

OrchestratorObject(mt, hs, st, r, es, ic, cr) ==
    [message_type |-> mt, has_state |-> hs, state |-> st, routing |-> r,
     specialist_responses |-> es, inventory_check |-> ic, customer_response |-> cr]

\* Results about the product route: <<routing, state.routing>> is given,
\* inferred from the state or absent.
ProductObjects ==
    { OrchestratorObject("orchestrator_result", TRUE, ReportedState("searching", c, r[2]),
                         r[1], es, ic, AgentCustomerText) :
        r \in { <<"product_agent", "product_agent">>, <<"none", "product_agent">>,
                <<"none", "none">> },
        c \in BOOLEAN, es \in ReportedEntries, ic \in ReportedInventoryChecks }

\* Results about the insurance route, under its name or its legacy alias.
InsuranceObjects ==
    { OrchestratorObject("orchestrator_result", TRUE, ReportedState(ps, c, "none"),
                         r, es, ic, AgentCustomerText) :
        r \in { INSURANCE_ROUTE, LEGACY_INSURANCE_ROUTE },
        ps \in {"searching", "agreed"}, c \in BOOLEAN,
        es \in { << >>, << Entry("Insurance Specialist", InsuranceJson) >>,
                 << Entry("system", SystemRouteProduct) >> },
        ic \in { NoInventoryCheck, ReportedCheck(TRUE, DetailsUnusable, "false", << >>) } }

\* Objects of the shape of an orchestrator result.
ValidObjects == ProductObjects \cup InsuranceObjects

SomeObject ==
    OrchestratorObject("orchestrator_result", TRUE,
        [product_status |-> "searching", overall_status |-> "inventory_check",
         inventory_checked |-> TRUE, routing |-> "none"],
        INSURANCE_ROUTE, << >>, ReportedCheck(TRUE, DetailsUnusable, "false", << >>),
        AgentCustomerText)

NoReply == [format |-> "plain", object |-> [SomeObject EXCEPT !.message_type = "", !.has_state = FALSE]]

\* Replies that are not a usable orchestrator result.
UnusableOrchestrators ==
    { [kind |-> "none", reply |-> NoReply],
      [kind |-> "raises", reply |-> NoReply],
      [kind |-> "reply", reply |-> [format |-> "plain", object |-> SomeObject]],
      [kind |-> "reply", reply |-> [format |-> "json",
                                    object |-> [SomeObject EXCEPT !.message_type = "other"]]],
      [kind |-> "reply", reply |-> [format |-> "json",
                                    object |-> [SomeObject EXCEPT !.has_state = FALSE]]] }

UsableOrchestrators ==
    { [kind |-> "reply", reply |-> [format |-> "json", object |-> o]] : o \in ValidObjects }

CounterKeys == { "customer_clarifications", "product_agent_calls", "insurance_agent_calls" }

(***************************************************************************)
(* The state machine: a session's iteration counters and stored retail     *)
(* state, the turn in progress, and the last application of a pure helper. *)
(***************************************************************************)
VARIABLES iteration_counts, retail_state, turn, pc, applied, messages, current_phase

vars == << iteration_counts, retail_state, turn, pc, applied, messages, current_phase >>

\* A counter map without keys.
EmptyMap == [k \in {} |-> 0]

\* st.session_state.retail_state = None
NoRetailState == PacketState("null", "null", FALSE, "null")

NoTurn ==
    [packet |-> [state |-> PacketState("", "", FALSE, ""), routing_hint |-> "",
                 latest_user_input |-> "", customer_visible_draft |-> ""],
     history |-> << >>, orchestrator |-> [kind |-> "none", reply |-> NoReply],
     product_agent |-> "none", insurance_agent |-> "none",
     counts_before |-> [k \in CounterKeys |-> 0],
     counts_after |-> [k \in CounterKeys |-> 0], outcome |-> "ok",
     out |-> [raised |-> FALSE, path |-> "", result |-> NoResult,
              counts |-> [k \in CounterKeys |-> 0], calls |-> << >>,
              attempted |-> FALSE, packet_state |-> PacketState("", "", FALSE, "")]]

NoApplication == [fn |-> "none"]

\* app.py 464-472: the session's stored state and counters at start.
\* st.session_state.messages: the list starts with the greeting (lines
\* 770-776); of a longer list the last MaxMessages entries are kept.
Greeting == AgentMsg(GreetingText)

kept_messages(list) == LastN(list, MaxMessages)

\* The phase whose keywords (lines 441-455) occur in the lower-cased text,
\* for the texts a session without a stored state can hold.
keyword_phase(text) ==
    CASE text = GreetingText -> 4
      [] text = DemoModeMessage -> 4
      [] text = PlainText -> 2
      [] OTHER -> 1

\* The content of an answer in the kept list, up to what the keyword scan
\* tells apart: an answer with a keyword as it is, the others as one text
\* without keywords.  The answer of a coordinated turn is never scanned:
\* such a turn stores a state (line 731), and the scan runs only while none
\* is stored (lines 430-434).
kept_content(main_response) ==
    IF keyword_phase(main_response) > 1 THEN main_response ELSE CoordinatedText

RECURSIVE highest_keyword_phase(_)
highest_keyword_phase(recent) ==
    IF recent = << >> THEN 1
    ELSE LET rest == highest_keyword_phase(Tail(recent))
             here == keyword_phase(Head(recent).content)
         IN  IF here > rest THEN here ELSE rest

\* determine_current_phase (lines 412-458): the stored state decides when
\* there is one, else the keywords of the last five messages.
determine_current_phase(conversation_history, last_state) ==
    IF last_state # NoRetailState THEN map_state_to_phase(last_state)
    ELSE IF Len(conversation_history) <= 1 THEN 1
    ELSE highest_keyword_phase(LastN(conversation_history, RequirementsWindow))

Init ==
    /\ iteration_counts = [k \in CounterKeys |-> 0]
    /\ retail_state = NoRetailState
    /\ turn = NoTurn
    /\ pc = "idle"
    /\ applied = NoApplication
    /\ messages = << Greeting >>
    /\ current_phase = 1

\* Line 756, `iteration_counts = iteration_counts or {}`: a map without keys
\* is replaced by a new map inside the call, so the map the caller passed is
\* the one written to only when it has a key.
caller_map_after(counts, out) == IF DOMAIN counts = {} THEN counts ELSE out.counts

\* The caller holds what the call handed back, and its counter map as the
\* call left it.
Handed(packet, orchestrator, handles, history, outcome, counts, out) ==
    /\ turn' = [packet |-> packet, history |-> history, orchestrator |-> orchestrator,
                product_agent |-> handles[1], insurance_agent |-> handles[2],
                counts_before |-> counts,
                counts_after |-> caller_map_after(counts, out),
                outcome |-> IF out.attempted THEN outcome ELSE "ok", out |-> out]
    /\ pc' = "returned"

\* One call of orchestrate_customer_packet with the counter map counts.
Turn(packet, orchestrator, handles, history, outcome, counts) ==
    Handed(packet, orchestrator, handles, history, outcome, counts,
           orchestrate_customer_packet(packet, orchestrator, handles[1], handles[2],
                                       history, counts, outcome))

\* The orchestrator agent is absent or its reply is unusable.
OrchestrateWithoutAgent ==
    /\ pc = "idle"
    /\ \E packet \in Packets, o \in UnusableOrchestrators, b \in Backends,
          history \in Histories :
            Turn(packet, o, b[1], history, b[2], iteration_counts)
    /\ iteration_counts' = turn'.counts_after
    /\ UNCHANGED << retail_state, applied, messages, current_phase >>

\* The orchestrator agent returns a result object.
OrchestrateWithAgent ==
    /\ pc = "idle"
    /\ \E packet \in AgentPathPackets, o \in UsableOrchestrators, b \in Backends,
          history \in Histories :
            Turn(packet, o, b[1], history, b[2], iteration_counts)
    /\ iteration_counts' = turn'.counts_after
    /\ UNCHANGED << retail_state, applied, messages, current_phase >>

\* A caller passes a counter map of its own that has no keys yet.
OrchestrateWithEmptyMap ==
    /\ pc = "idle"
    /\ \E packet \in HintedPackets, b \in Backends, history \in Histories :
            Turn(packet, [kind |-> "none", reply |-> NoReply], b[1], history, b[2],
                 EmptyMap)
    /\ UNCHANGED << iteration_counts, retail_state, applied, messages, current_phase >>

\* The caller takes the result (or the exception) of the call.
ReturnToCaller ==
    /\ pc = "returned"
    /\ pc' = "idle"
    /\ turn' = NoTurn
    /\ UNCHANGED << iteration_counts, retail_state, applied, messages, current_phase >>

\* What a reset ended: whether the session had used up its turns, and
\* whether it had a stored state.
Discarded(counts, state) ==
    [reset |-> TRUE,
     capped |-> CountOf(counts, "customer_clarifications") >= MaxClarifications,
     stored |-> state # NoRetailState]

\* Reset Chat without the counters.
ResetChatKeepingCounters ==
    /\ pc = "idle"
    /\ messages' = << Greeting >>
    /\ retail_state' = NoRetailState
    /\ current_phase' = determine_current_phase(<< Greeting >>, NoRetailState)
    /\ turn' = Discarded(iteration_counts, retail_state)
    /\ UNCHANGED << iteration_counts, pc, applied >>

\* app.py 780-796: Reset Chat, and the rerun that recomputes the phase
\* (lines 480-484).
ResetChat ==
    /\ pc = "idle"
    /\ messages' = << Greeting >>
    /\ iteration_counts' = [k \in CounterKeys |-> 0]
    /\ retail_state' = NoRetailState
    /\ current_phase' = determine_current_phase(<< Greeting >>, NoRetailState)
    /\ turn' = Discarded(iteration_counts, retail_state)
    /\ UNCHANGED << pc, applied >>

Next ==
    \/ OrchestrateWithoutAgent
    \/ OrchestrateWithAgent
    \/ OrchestrateWithEmptyMap
    \/ ReturnToCaller
    \/ ResetChat

Spec == Init /\ [][Next]_vars

(***************************************************************************)
(* parse_retail_state.  A reply text is the sequence of its parts between  *)
(* "---" delimiters (one part: no delimiter), a part is the sequence of    *)
(* its lines, and a line is a key before a colon and the value after it;   *)
(* a line of prose has no key.                                             *)
(***************************************************************************)
Line(key, value) == [key |-> key, value |-> value]

StateFields == "product_status=agreed | insurance_status=Offered | overall_status=insurance_phase"
StateLine == Line("STATE", StateFields)
StateMalformed == Line("STATE", "product_status=agreed")
RoutingLine == Line("ROUTING", "Product_Agent")
RoutingLower == Line("routing", "insurance_agent")
RoutingEmpty == Line("ROUTING", "")
InventoryLine == Line("INVENTORY_CHECKED", "TRUE")
IterationLine == Line("ITERATION_COUNT", "2")
IterationLower == Line("iteration_count", "4")
ProseLine == Line("", "Thanks for waiting")

\* default_state, lines 36-43 of utilities.py.
DefaultState ==
    [product_status |-> "collecting", insurance_status |-> "not_offered",
     overall_status |-> "intake", routing |-> "none", inventory_checked |-> FALSE,
     iteration_count |-> 0]

\* str.lower() on the words of the model.
lower_word(word) ==
    IF word = "Product_Agent" THEN "product_agent"
    ELSE IF word = "Offered" THEN "offered"
    ELSE IF word = "TRUE" THEN "true"
    ELSE IF word = "STATE" THEN "state"
    ELSE IF word = "ROUTING" THEN "routing"
    ELSE IF word = "INVENTORY_CHECKED" THEN "inventory_checked"
    ELSE IF word = "ITERATION_COUNT" THEN "iteration_count"
    ELSE IF word = "Thanks" THEN "thanks"
    ELSE word

\* int() on the digit strings of the model.
int_of(digits) == IF digits = "2" THEN 2 ELSE IF digits = "4" THEN 4 ELSE 0

\* The run of [\w-] characters a line starts with.
first_word(line) == IF line.key # "" THEN line.key ELSE "Thanks"

\* Lines 63-67: the groups of the STATE pattern in a line, << >> without a
\* match.
state_match(line) ==
    IF lower_word(line.key) = "state" /\ line.value = StateFields
    THEN << "agreed", "Offered", "insurance_phase" >>
    ELSE << >>

\* Line 73, r"ROUTING:\s*([\w-]+)": the word captured at line i of a part, ""
\* without a match there.  \s* runs over the line break, so a ROUTING line
\* without a value captures the first word of the next line.
routing_match(part, i) ==
    IF lower_word(part[i].key) # "routing" THEN ""
    ELSE IF part[i].value # "" THEN part[i].value
    ELSE IF i < Len(part) THEN first_word(part[i + 1])
    ELSE ""

\* Line 77, r"INVENTORY_CHECKED:\s*(true|false)" without regard to case.
inventory_match(line) ==
    IF /\ lower_word(line.key) = "inventory_checked"
       /\ lower_word(line.value) \in { "true", "false" }
    THEN line.value ELSE ""

\* Line 81, r"ITERATION_COUNT:\s*(\d+)", which regards case.
iteration_match(line) ==
    IF line.key = "ITERATION_COUNT" /\ line.value \in { "2", "4" } THEN line.value ELSE ""

\* The least member of a set of positions.
First(positions) == CHOOSE i \in positions : \A j \in positions : i <= j

\* Lines 54-58: a part holds a state or routing marker.
has_marker(part) ==
    \E i \in 1..Len(part) : lower_word(part[i].key) \in { "state", "routing" }

\* Lines 63-83: the fields read from the metadata part, each pattern taking
\* its first match.
parse_metadata(part) ==
    LET st == { i \in 1..Len(part) : state_match(part[i]) # << >> }
        ro == { i \in 1..Len(part) : routing_match(part, i) # "" }
        inv == { i \in 1..Len(part) : inventory_match(part[i]) # "" }
        it == { i \in 1..Len(part) : iteration_match(part[i]) # "" }
    IN  [product_status |-> IF st = {} THEN DefaultState.product_status
                            ELSE lower_word(state_match(part[First(st)])[1]),
         insurance_status |-> IF st = {} THEN DefaultState.insurance_status
                              ELSE lower_word(state_match(part[First(st)])[2]),
         overall_status |-> IF st = {} THEN DefaultState.overall_status
                            ELSE lower_word(state_match(part[First(st)])[3]),
         routing |-> IF ro = {} THEN DefaultState.routing
                     ELSE lower_word(routing_match(part, First(ro))),
         inventory_checked |-> IF inv = {} THEN DefaultState.inventory_checked
                               ELSE lower_word(inventory_match(part[First(inv)])) = "true",
         iteration_count |-> IF it = {} THEN DefaultState.iteration_count
                             ELSE int_of(iteration_match(part[First(it)]))]

\* A part that is not white space only.
NonBlank(part) == part # << >>

\* parse_retail_state
parse_retail_state(text) ==
    LET parts == SelectSeq(text, NonBlank)
        marked == { i \in 1..Len(parts) : has_marker(parts[i]) }
    IN  IF Len(text) < 2 THEN DefaultState
        ELSE IF marked = {} THEN DefaultState
        ELSE parse_metadata(parts[CHOOSE i \in marked : \A j \in marked : j <= i])

(***************************************************************************)
(* The pure helpers applied on their own: an application is drawn at the   *)
(* start and the helper is applied to it once.                             *)
(***************************************************************************)
SummaryBases == { "", BlankText, DraftPlain, PaddedDraft }

SummaryEntries ==
    { Entry("System", SystemPlain), Entry("System", ""), Entry("System", BlankText),
      Entry(PaddedSystem, PaddedNotice), Entry("Product Specialist", ProductJsonPretty) }

SummaryApplications ==
    { [fn |-> "build_user_summary", done |-> FALSE, base |-> b, entries |-> e, value |-> ""] :
        b \in SummaryBases,
        e \in UNION { [1..n -> SummaryEntries] : n \in 0..MaxSummaryEntries } }

ReplyLines ==
    { StateLine, StateMalformed, RoutingLine, RoutingLower, RoutingEmpty,
      InventoryLine, IterationLine, IterationLower, ProseLine }

\* The parts of at most n lines.
ReplyParts(n) == UNION { [1..k -> ReplyLines] : k \in 0..n }

\* Reply texts without a delimiter and with one delimiter.
ReplyTexts(n) ==
    { << a >> : a \in ReplyParts(n) } \cup { << a, b >> : a, b \in ReplyParts(n) }

ParseApplications(n) ==
    { [fn |-> "parse_retail_state", done |-> FALSE, text |-> t, value |-> DefaultState] :
        t \in ReplyTexts(n) }

\* The statuses of the lookup table, statuses it does not list, and a state
\* that carries no overall_status.
PhaseStatuses ==
    { "intake", "inventory_check", "product_negotiation", "insurance_phase",
      "ready_to_checkout", "stopped", "Intake", "checkout", "" }

PhaseStates ==
    { [product_status |-> ps, overall_status |-> os] :
        ps \in { "searching", "agreed" }, os \in PhaseStatuses }
    \cup { [product_status |-> ps] : ps \in { "searching", "agreed" } }

PhaseApplications ==
    { [fn |-> "map_state_to_phase", done |-> FALSE, state |-> st, state_after |-> st,
       value |-> 0] : st \in PhaseStates }

\* Histories of the extractors: short lists over the history entries and the
\* budget and region texts, and lists longer than the window whose first
\* message lies outside it.
ExtractorEntries ==
    HistoryEntries \cup { UserMsg(BudgetOnlyText), UserMsg(RegionFeatureText) }

LongHistories ==
    { << e >> \o [i \in 1..RequirementsWindow |-> UserMsg(ProceedText)] :
        e \in { UserMsg(BudgetOnlyText), UserMsg(RegionFeatureText), NonDictEntry } }

ExtractorHistories(n) ==
    UNION { [1..k -> ExtractorEntries] : k \in 0..n } \cup LongHistories

NoHistory == [present |-> FALSE, list |-> << >>]

RequirementsApplications(n) ==
    { [fn |-> "extract_requirements", calls |-> 0, given |-> h, conversation_history |-> h,
       first |-> [raises |-> FALSE, requirements |-> DefaultRequirements],
       second |-> [raises |-> FALSE, requirements |-> DefaultRequirements]] :
        h \in { NoHistory } \cup { [present |-> TRUE, list |-> l] : l \in ExtractorHistories(n) } }

NoVerdict == [raises |-> FALSE, valid |-> FALSE, error_msg |-> "null"]

\* An agent message of the session's list with the specialist entry it
\* was shown with (app.py 1047-1056).
EmbeddedMsg ==
    [role |-> "agent", content |-> AgentCustomerText,
     specialist_responses |-> << Entry("Product Specialist", ProductJsonPretty) >>]

\* Histories for the windows of the two extractors: short lists, and lists
\* one entry longer than a window, whose first entry lies outside it.
WindowEntries == ExtractorEntries \cup { UserMsg(ModelOnlyText), EmbeddedMsg }

OutsideEntries ==
    { UserMsg(BudgetModelText), UserMsg(BudgetOnlyText), UserMsg(RegionFeatureText),
      UserMsg(ModelOnlyText), EmbeddedMsg, NonDictEntry }

WindowHistories(n) ==
    UNION { [1..k -> WindowEntries] : k \in 0..n }
    \cup { << e >> \o [i \in 1..w |-> UserMsg(ProceedText)] :
             e \in OutsideEntries,
             w \in { RequirementsWindow - 1, RequirementsWindow,
                     ProductDetailsWindow - 1, ProductDetailsWindow } }

NoRequirements == [raises |-> FALSE, requirements |-> DefaultRequirements]
NoProductDetails == [raises |-> FALSE, product_details |-> DefaultProductDetails]

WindowApplications(n) ==
    { [fn |-> "extraction windows", done |-> FALSE, history |-> h,
       requirements |-> NoRequirements, suffix_requirements |-> NoRequirements,
       product_details |-> NoProductDetails, suffix_product_details |-> NoProductDetails,
       verdict |-> NoVerdict] : h \in WindowHistories(n) }

ValidationApplications(n) ==
    { [fn |-> "validate_insurance_context", done |-> FALSE,
       state |-> [product_status |-> ps], history |-> h, value |-> NoVerdict] :
        ps \in { "collecting", "searching", "agreed" }, h \in ExtractorHistories(n) }

PureInit ==
    /\ iteration_counts = [k \in CounterKeys |-> 0]
    /\ retail_state = NoRetailState
    /\ turn = NoTurn
    /\ pc = "idle"
    /\ applied \in SummaryApplications \cup ParseApplications(MaxLines)
    /\ messages = << Greeting >>
    /\ current_phase = 1

\* _build_user_summary(base, entries)
BuildUserSummary ==
    /\ applied.fn = "build_user_summary"
    /\ ~applied.done
    /\ applied' = [applied EXCEPT !.done = TRUE,
                     !.value = build_user_summary(applied.base, applied.entries)]
    /\ UNCHANGED << iteration_counts, retail_state, turn, pc, messages, current_phase >>

\* parse_retail_state(response)
ParseRetailState ==
    /\ applied.fn = "parse_retail_state"
    /\ ~applied.done
    /\ applied' = [applied EXCEPT !.done = TRUE,
                     !.value = parse_retail_state(applied.text)]
    /\ UNCHANGED << iteration_counts, retail_state, turn, pc, messages, current_phase >>

\* map_state_to_phase(state): the state is read, never assigned.
MapStateToPhase ==
    /\ applied.fn = "map_state_to_phase"
    /\ ~applied.done
    /\ applied' = [applied EXCEPT !.done = TRUE,
                     !.value = map_state_to_phase(applied.state),
                     !.state_after = applied.state]
    /\ UNCHANGED << iteration_counts, retail_state, turn, pc, messages, current_phase >>

\* extract_requirements(conversation_history), called on the list as the
\* previous call left it.
ExtractRequirements ==
    /\ applied.fn = "extract_requirements"
    /\ applied.calls < 2
    /\ LET call == extract_requirements(applied.conversation_history)
           result == [raises |-> call.raises, requirements |-> call.requirements]
       IN  applied' = [applied EXCEPT !.calls = @ + 1,
                         !.conversation_history = call.conversation_history,
                         !.first = IF applied.calls = 0 THEN result ELSE @,
                         !.second = IF applied.calls = 1 THEN result ELSE @]
    /\ UNCHANGED << iteration_counts, retail_state, turn, pc, messages, current_phase >>

\* validate_insurance_context(state, conversation_history)
ValidateInsuranceContext ==
    /\ applied.fn = "validate_insurance_context"
    /\ ~applied.done
    /\ applied' = [applied EXCEPT !.done = TRUE,
                     !.value = validate_insurance_context(applied.state, applied.history)]
    /\ UNCHANGED << iteration_counts, retail_state, turn, pc, messages, current_phase >>

PureNext ==
    \/ BuildUserSummary
    \/ ParseRetailState

PureSpec == PureInit /\ [][PureNext]_vars

(***************************************************************************)
(* Applications of the functions of agents/utilities that read a state or  *)
(* a history.                                                               *)
(***************************************************************************)
UtilityInit ==
    /\ iteration_counts = [k \in CounterKeys |-> 0]
    /\ retail_state = NoRetailState
    /\ turn = NoTurn
    /\ pc = "idle"
    /\ applied \in PhaseApplications \cup RequirementsApplications(MaxHistory + 1)
                    \cup ValidationApplications(MaxHistory + 1)
                    \cup WindowApplications(MaxHistory + 1)
    /\ messages = << Greeting >>
    /\ current_phase = 1

\* The outcome of extract_requirements without the argument.
requirements_of(history) ==
    LET call == extract_requirements([present |-> TRUE, list |-> history])
    IN  [raises |-> call.raises, requirements |-> call.requirements]

\* The two extractors on a history and on its last five and last twelve
\* entries, and the insurance validation of an agreed product on it.
ExtractOnWindows ==
    /\ applied.fn = "extraction windows"
    /\ ~applied.done
    /\ applied' =
         [applied EXCEPT
            !.done = TRUE,
            !.requirements = requirements_of(applied.history),
            !.suffix_requirements =
                requirements_of(LastN(applied.history, RequirementsWindow)),
            !.product_details = extract_product_details(applied.history),
            !.suffix_product_details =
                extract_product_details(LastN(applied.history, ProductDetailsWindow)),
            !.verdict =
                validate_insurance_context([product_status |-> "agreed"], applied.history)]
    /\ UNCHANGED << iteration_counts, retail_state, turn, pc, messages, current_phase >>

UtilityNext ==
    \/ MapStateToPhase
    \/ ExtractRequirements
    \/ ValidateInsuranceContext
    \/ ExtractOnWindows

UtilitySpec == UtilityInit /\ [][UtilityNext]_vars

(***************************************************************************)
(* A chat session of app.py: handle_customer_query on the session's        *)
(* counters and stored retail state.                                       *)
(***************************************************************************)


\* A cap that lets one more turn through.
session_capped_late(counts) == CountOf(counts, "customer_clarifications") > MaxClarifications

\* Line 657: the session has used up its customer turns.
session_capped(counts) == CountOf(counts, "customer_clarifications") >= MaxClarifications

\* Packets the intake collector hands on; it calls the customer agent, does
\* not raise, and leaves history and counters alone.
collect_customer_input_packet ==
    { packet \in Packets :
        /\ packet.customer_visible_draft = DraftPlain
        /\ packet.latest_user_input = PlainText
        /\ packet.routing_hint \in { "none", "product_agent", INSURANCE_ROUTE }
        /\ packet.state.inventory_checked = (packet.state.product_status = "agreed")
        /\ << packet.state.product_status, packet.state.overall_status >>
             \in { << "collecting", "intake" >>, << "agreed", "insurance_phase" >> } }

\* st.session_state.messages as the turns of the session hand it on.
SessionHistories ==
    { << >>, << UserMsg(ProceedText) >>, << UserMsg(BudgetModelText) >>, << NonDictEntry >> }

SessionOrchestrators ==
    { [kind |-> "none", reply |-> NoReply],
      [kind |-> "reply", reply |-> [format |-> "json", object |-> SomeObject]] }

\* What handle_customer_query returned, with the session as it was before,
\* the way the turn ended and the state of the orchestrator's result.
Answered(main_response, inventory_check, entries, agent_calls, ended, state) ==
    /\ turn' = [main_response |-> main_response, inventory_check |-> inventory_check,
                specialist_responses |-> entries, agent_calls |-> agent_calls,
                counts_before |-> iteration_counts, state_before |-> retail_state,
                ended |-> ended, result_state |-> state]
    /\ pc' = "answered"
    /\ applied' = applied
    /\ messages' = kept_messages(Append(messages, UserMsg(PlainText)))
    /\ current_phase' = current_phase

\* Lines 657-665: the capped session answers with the fixed message.
AnswerAtCap ==
    /\ pc = "idle"
    /\ session_capped(iteration_counts)
    /\ Answered(SessionCapMessage, NoInventoryCheck, << >>, << >>, "cap", NoRetailState)
    /\ UNCHANGED << iteration_counts, retail_state >>

\* Lines 670-678 and 752-759: settings are missing, or no customer agent is
\* configured.
AnswerUnconfigured ==
    /\ pc = "idle"
    /\ ~session_capped(iteration_counts)
    /\ \/ Answered(ConfigIncompleteMessage, NoInventoryCheck, << >>, << >>,
                    "missing configuration", NoRetailState)
       \/ Answered(DemoModeMessage, NoInventoryCheck, << >>, << >>, "demo", NoRetailState)
    /\ UNCHANGED << iteration_counts, retail_state >>

\* The turn with a counter that also counts a turn that raised.
coordinated_counting_failures(o, out) ==
    IF out.raised
    THEN /\ Answered(ApologyMessage, NoInventoryCheck, << >>,
                     << "customer" >> \o (IF o.kind = "none" THEN << >>
                                          ELSE << "orchestrator" >>) \o out.calls,
                     "exception", NoRetailState)
         /\ iteration_counts' =
              Increment(caller_map_after(iteration_counts, out), "customer_clarifications")
         /\ retail_state' = retail_state
    ELSE /\ Answered(out.result.customer_response, out.result.inventory_check,
                     out.result.specialist_responses,
                     << "customer" >> \o (IF o.kind = "none" THEN << >>
                                          ELSE << "orchestrator" >>) \o out.calls,
                     "completed", out.result.state)
         /\ iteration_counts' =
              Increment(caller_map_after(iteration_counts, out), "customer_clarifications")
         /\ retail_state' = out.result.state

\* Lines 697-751 and 760-767: the turn once the orchestrator has returned
\* or raised.
Coordinated(o, out) ==
    IF out.raised
    THEN /\ Answered(ApologyMessage, NoInventoryCheck, << >>,
                     << "customer" >> \o (IF o.kind = "none" THEN << >>
                                          ELSE << "orchestrator" >>) \o out.calls,
                     "exception", NoRetailState)
         /\ iteration_counts' = caller_map_after(iteration_counts, out)
         /\ retail_state' = retail_state
    ELSE /\ Answered(out.result.customer_response, out.result.inventory_check,
                     out.result.specialist_responses,
                     << "customer" >> \o (IF o.kind = "none" THEN << >>
                                          ELSE << "orchestrator" >>) \o out.calls,
                     "completed", out.result.state)
         /\ iteration_counts' =
              Increment(caller_map_after(iteration_counts, out), "customer_clarifications")
         /\ retail_state' = out.result.state

\* Lines 684-705: intake, then the orchestrator.
AnswerTurn ==
    /\ pc = "idle"
    /\ ~session_capped(iteration_counts)
    /\ \E packet \in collect_customer_input_packet, o \in SessionOrchestrators,
          b \in Backends, history \in SessionHistories :
           Coordinated(o, orchestrate_customer_packet(packet, o, b[1][1], b[1][2], history,
                                                      iteration_counts, b[2]))

\* Lines 1045-1059: the answer joins the message list and the rerun
\* recomputes the phase (lines 480-484).
ShowAnswer ==
    /\ pc = "answered"
    /\ pc' = "idle"
    /\ turn' = NoTurn
    /\ messages' = kept_messages(Append(messages, AgentMsg(kept_content(turn.main_response))))
    /\ current_phase' = determine_current_phase(messages', retail_state)
    /\ UNCHANGED << iteration_counts, retail_state, applied >>

SessionNext ==
    \/ AnswerAtCap
    \/ AnswerUnconfigured
    \/ AnswerTurn
    \/ ShowAnswer
    \/ ResetChat

SessionSpec == Init /\ [][SessionNext]_vars

(***************************************************************************)
(* Properties of a returned turn.                                          *)
(***************************************************************************)
Returned == pc = "returned"
Completed == Returned /\ ~turn.out.raised
Result == turn.out.result
Called(name) == \E i \in 1..Len(turn.out.calls) : turn.out.calls[i] = name
HasEntry(agent, response) ==
    \E i \in 1..Len(Result.specialist_responses) :
        Result.specialist_responses[i] = Entry(agent, response)
OnAgentPath == turn.out.path = "agent"
AgentReported == turn.orchestrator.reply.object
\* The orchestrator agent reported an inventory check with checked = true.
ReportedChecked ==
    /\ turn.orchestrator \in UsableOrchestrators
    /\ AgentReported.inventory_check.present
    /\ AgentReported.inventory_check.checked
\* The orchestrator agent supplied a specialist's response itself.
SuppliedSpecialistEntry ==
    /\ turn.orchestrator \in UsableOrchestrators
    /\ has_non_system_specialist_response(AgentReported.specialist_responses)
LatestMessageConfirms == latest_user_message_text(turn.history) \in ConfirmationTexts
\* The product route was requested: by the hint on the fallback path, by the
\* agent's routing on the orchestrator-agent path.
ProductRouteRequested ==
    IF OnAgentPath THEN AgentReported.routing = "product_agent"
    ELSE normalize_route_name(turn.packet.routing_hint) = "product_agent"

\* C1: the product specialist is called only when an inventory check was
\* attempted and (internal_match_found is false or the latest user message
\* carries a confirmation phrase); with inventory_checked true, a match found
\* and no such phrase, a requested product route resolves to none without a
\* call.
C1_InventoryFirstGate ==
    Completed =>
        /\ Called("product") =>
              /\ Result.state.inventory_checked
                   \/ (Result.inventory_check.present /\ Result.inventory_check.checked)
              /\ Result.inventory_check.internal_match_found = "false"
                   \/ LatestMessageConfirms
        /\ ( /\ ProductRouteRequested
             /\ Result.state.inventory_checked
             /\ Result.inventory_check.internal_match_found = "true"
             /\ ~LatestMessageConfirms )
           => (Result.routing = "none" /\ ~Called("product"))

C1_Witness ==
    /\ Completed
    /\ Called("product")
    /\ OnAgentPath
    /\ Result.inventory_check.internal_match_found = "false"
    /\ ~LatestMessageConfirms

C3_RejectionOpensGate ==
    ( /\ Completed
      /\ ~OnAgentPath
      /\ turn.packet.state.inventory_checked
      /\ turn.packet.routing_hint = "product_agent"
      /\ has_customer_rejected_internal_options(turn.history)
      /\ turn.product_agent # "none"
      /\ CountOf(turn.counts_before, "product_agent_calls") < MaxSpecialistCalls )
    => (Result.routing = "product_agent" /\ turn.out.attempted)

\* C4: every turn returns a result; none raises.
C4_NeverRaises == Returned => ~turn.out.raised

\* C5: a returned inventory check with a match has options, and one without
\* a match has a reason.
C5_InventoryInvariant ==
    (Completed /\ Result.inventory_check.present) =>
        /\ Result.inventory_check.internal_match_found = "true"
              => Result.inventory_check.internal_options # << >>
        /\ Result.inventory_check.internal_match_found = "false"
              => Result.inventory_check.no_match_reason # ""

\* C6: the insurance specialist is called only for an agreed product with
\* budget and model in the history; a turn routed to insurance whose
\* validation fails carries the cannot-route notice, makes no insurance call
\* and leaves insurance_agent_calls unchanged.
C6_InsuranceGate ==
    Completed =>
        /\ Called("insurance") =>
              /\ Result.state.product_status = "agreed"
              /\ extract_requirements_budget(turn.history) # "null"
              /\ extract_product_details_model(turn.history) # "null"
        /\ ( /\ normalize_route_name(Result.routing) = INSURANCE_ROUTE
             /\ turn.insurance_agent # "none"
             /\ ~SuppliedSpecialistEntry
             /\ ~validate_insurance_context(Result.state, turn.history).valid )
           => /\ HasEntry("System", CannotRoutePrefix \o
                     validate_insurance_context(Result.state, turn.history).error_msg)
              /\ ~Called("insurance")
              /\ CountOf(turn.out.counts, "insurance_agent_calls")
                    = CountOf(turn.counts_before, "insurance_agent_calls")

\* C7: at product_agent_calls = 3 a turn routed to the product specialist
\* with the gate satisfied makes no call and carries the cap notice, on both
\* paths; likewise for the insurance specialist.
C7_CapNotice ==
    Completed =>
        /\ ( /\ CountOf(turn.counts_before, "product_agent_calls") >= MaxSpecialistCalls
             /\ Result.routing = "product_agent"
             /\ turn.product_agent # "none"
             /\ ~SuppliedSpecialistEntry
             /\ has_failed_internal_option_agreement(Result.state, Result.inventory_check,
                                                     turn.history) )
           => (~Called("product") /\ HasEntry("System", ProductCapNotice))
        /\ ( /\ CountOf(turn.counts_before, "insurance_agent_calls") >= MaxSpecialistCalls
             /\ normalize_route_name(Result.routing) = INSURANCE_ROUTE
             /\ turn.insurance_agent # "none"
             /\ ~SuppliedSpecialistEntry
             /\ validate_insurance_context(Result.state, turn.history).valid )
           => (~Called("insurance") /\ HasEntry("System", InsuranceCapNotice))

\* C8: a turn invokes at most one specialist adapter, and the two specialist
\* counters together grow by at most one.
C8_AtMostOneSpecialist ==
    Returned =>
        /\ Len(turn.out.calls) <= 1
        /\ CountOf(turn.out.counts, "product_agent_calls")
             + CountOf(turn.out.counts, "insurance_agent_calls")
           <= CountOf(turn.counts_before, "product_agent_calls")
                + CountOf(turn.counts_before, "insurance_agent_calls") + 1

C8_Witness ==
    /\ Completed
    /\ turn.product_agent = "live"
    /\ turn.insurance_agent = "live"
    /\ turn.outcome = "fail"
    /\ Len(turn.out.calls) = 1

\* C9: when the orchestrator agent's reply is unusable (the call raises, the
\* reply is not a JSON object, or the object lacks the message type or the
\* state), the turn ends as the fallback path ends it with no orchestrator
\* agent configured.
C9_FallbackOnUnusableReply ==
    ( /\ Returned
      /\ turn.orchestrator.kind # "none"
      /\ \/ turn.orchestrator.kind = "raises"
         \/ turn.orchestrator.reply.format # "json"
         \/ turn.orchestrator.reply.object.message_type # "orchestrator_result"
         \/ ~turn.orchestrator.reply.object.has_state )
    => turn.out = fallback_path(turn.packet, turn.history, turn.counts_before, << >>,
                                turn.product_agent, turn.insurance_agent, turn.outcome)

C9_Witness ==
    /\ Completed
    /\ turn.orchestrator.kind = "reply"
    /\ turn.orchestrator.reply.format = "json"
    /\ ~turn.orchestrator.reply.object.has_state
    /\ Called("product")

\* Texts that name or request a specialist.
SpecialistRequestTexts == { ReferText, AgentAskText }

\* C10: on the fallback path a default-state turn with hint none, whose user
\* input and latest user message do not name or request a specialist, stays
\* local: routing none, no entries, no inventory check, inventory_checked
\* false and both specialist counters unchanged.
C10_IntakeStaysLocal ==
    ( /\ Completed
      /\ ~OnAgentPath
      /\ turn.packet.state.product_status = "collecting"
      /\ turn.packet.state.overall_status = "intake"
      /\ ~turn.packet.state.inventory_checked
      /\ turn.packet.routing_hint = "none"
      /\ turn.packet.latest_user_input \notin SpecialistRequestTexts
      /\ latest_user_message_text(turn.history) \notin SpecialistRequestTexts )
    => /\ Result.routing = "none"
       /\ Result.specialist_responses = << >>
       /\ ~Result.inventory_check.present
       /\ ~Result.state.inventory_checked
       /\ turn.out.counts = turn.counts_before

\* An entry labelled agent is in the returned list.
HasAgentEntry(agent) ==
    \E i \in 1..Len(Result.specialist_responses) :
        Result.specialist_responses[i].agent = agent

\* C11: a turn whose specialist request fails in the backend completes with a
\* System "unavailable" entry, no specialist entry for that call and the
\* specialist's counter unchanged.
C11_FailedCallNotice ==
    (Completed /\ turn.out.attempted /\ turn.outcome = "fail") =>
        /\ HasEntry("System", ProductUnavailable) \/ HasEntry("System", InsuranceUnavailable)
        /\ ~HasAgentEntry("Product Specialist")
        /\ ~HasAgentEntry("Insurance Specialist")
        /\ turn.out.counts = turn.counts_before

\* C12: a turn routed to a specialist, with the gate satisfied and the
\* counter below the cap, whose handle is absent or has no agent, reports the
\* specialist as unavailable in a System entry, has no specialist entry and
\* leaves the counter unchanged.
C12_UnavailableReported ==
    Completed =>
        /\ ( /\ Result.routing = "product_agent"
             /\ turn.product_agent \in {"none", "placeholder"}
             /\ ~SuppliedSpecialistEntry
             /\ CountOf(turn.counts_before, "product_agent_calls") < MaxSpecialistCalls
             /\ has_failed_internal_option_agreement(Result.state, Result.inventory_check,
                                                     turn.history) )
           => /\ HasEntry("System", ProductUnavailable)
              /\ ~HasAgentEntry("Product Specialist")
              /\ turn.out.counts = turn.counts_before
        /\ ( /\ normalize_route_name(Result.routing) = INSURANCE_ROUTE
             /\ turn.insurance_agent \in {"none", "placeholder"}
             /\ ~SuppliedSpecialistEntry
             /\ CountOf(turn.counts_before, "insurance_agent_calls") < MaxSpecialistCalls
             /\ validate_insurance_context(Result.state, turn.history).valid )
           => /\ HasEntry("System", InsuranceUnavailable)
              /\ ~HasAgentEntry("Insurance Specialist")
              /\ turn.out.counts = turn.counts_before

\* C14: after a turn in which a specialist call succeeds, the counter map
\* the caller passed shows that specialist's counter one higher and every
\* other counter unchanged, whatever map was passed.
C14_CallerMapMutated ==
    (Completed /\ turn.out.attempted /\ turn.outcome = "ok" /\ Len(turn.out.calls) = 1) =>
        LET key == IF Called("product") THEN "product_agent_calls"
                   ELSE "insurance_agent_calls"
        IN  /\ CountOf(turn.counts_after, key) = CountOf(turn.counts_before, key) + 1
            /\ \A k \in CounterKeys \ {key} :
                   CountOf(turn.counts_after, k) = CountOf(turn.counts_before, k)

\* C17: the routing of every returned result is one of none, product_agent
\* and insurance_agent; the legacy alias never appears in a result.
C17_RoutingClosedEnum ==
    Completed => Result.routing \in {"none", "product_agent", INSURANCE_ROUTE}

\* C19: the intake packet is the same after the turn as before it, its
\* nested state and inventory_checked included.
C19_PacketUnchanged ==
    Completed => turn.out.packet_state = turn.packet.state

\* Lines 776-791: the payload built from the agent's reply and its effective
\* route.
AgentPayload == build_agent_result_payload(AgentReported, turn.packet.state)
AgentRoute == effective_routing(AgentPayload, turn.history, turn.product_agent)
\* Lines 793-800: the payload the gate of the orchestrator-agent path reads.
AgentChecked ==
    ensure_inventory_check_payload(AgentPayload,
        AgentRoute = "product_agent"
          \/ has_product_specialist_response(AgentPayload.specialist_responses))
\* Lines 802-808: the gate of the orchestrator-agent path is closed.
AgentGateClosed ==
    ~has_failed_internal_option_agreement(AgentChecked.state,
                                          AgentChecked.inventory_check, turn.history)

\* C16: on the orchestrator-agent path, when the effective route is
\* product_agent and the inventory-first gate is closed, the result has
\* routing none, exactly one System deferral entry (entries the agent
\* supplied are discarded) and the fixed internal-check-first customer
\* response; no specialist is called and no counter changes.
C16_ClosedGateDefers ==
    (Completed /\ OnAgentPath /\ AgentRoute = "product_agent" /\ AgentGateClosed) =>
        /\ Result.routing = "none"
        /\ Result.specialist_responses = << Entry("System", DeferralNotice) >>
        /\ Result.customer_response = DeferralCustomerResponse
        /\ turn.out.calls = << >>
        /\ ~turn.out.attempted
        /\ turn.counts_after = turn.counts_before

\* A deferral that discards a specialist entry the agent supplied.
C16_Witness ==
    /\ Completed /\ OnAgentPath /\ AgentRoute = "product_agent" /\ AgentGateClosed
    /\ SuppliedSpecialistEntry
    /\ Result.routing = "none"
    /\ HasEntry("System", DeferralNotice)

\* The customer asked for the specialist: the latest history message carries
\* a confirmation or a rejection of the internal options, or the packet's
\* user input asks for the referral.
CustomerAskedForSpecialist ==
    \/ has_customer_confirmed_specialist_routing(turn.history)
    \/ has_customer_rejected_internal_options(turn.history)
    \/ turn.packet.latest_user_input = ReferText

\* C18, insurance: a returned result with routing insurance_agent has
\* state.product_status agreed.
C18_InsuranceRoutingJustified ==
    (Completed /\ Result.routing = INSURANCE_ROUTE) =>
        Result.state.product_status = "agreed"

\* C18, product: a returned result with routing product_agent follows a
\* customer request or confirmation for the specialist or an inventory check
\* with internal_match_found false.
C18_ProductRoutingJustified ==
    (Completed /\ Result.routing = "product_agent") =>
        \/ CustomerAskedForSpecialist
        \/ ( Result.inventory_check.present
             /\ Result.inventory_check.internal_match_found = "false" )

\* C18: non-none routing is always justified.
C18_RoutingJustified ==
    C18_InsuranceRoutingJustified /\ C18_ProductRoutingJustified

\* _build_user_summary has been applied.
SummaryApplied == applied.fn = "build_user_summary" /\ applied.done

\* C15: _build_user_summary(base, entries) returns the base text when it is
\* not empty; otherwise the hand-off sentence when a non-System entry
\* exists; otherwise the first non-empty System message; otherwise, also
\* with an empty base and no entries at all, the generic acknowledgment,
\* and never an empty string.
C15_SummaryPrecedence ==
    SummaryApplied =>
        LET base == strip_text(applied.base)
            e == applied.entries
            others == { i \in 1..Len(e) : strip_text(e[i].agent) # "System" }
            notices == { i \in 1..Len(e) : /\ strip_text(e[i].agent) = "System"
                                           /\ strip_text(e[i].response) # "" }
        IN  /\ applied.value # ""
            /\ applied.value =
                 IF base # "" THEN base
                 ELSE IF others # {} THEN HandOffSentence
                 ELSE IF notices # {}
                 THEN strip_text(e[CHOOSE i \in notices : \A j \in notices : i <= j].response)
                 ELSE GenericAck

\* parse_retail_state has been applied.
ParseApplied == applied.fn = "parse_retail_state" /\ applied.done

\* The part the claim reads: the last non-blank part with a marker.
MetadataParts ==
    LET parts == SelectSeq(applied.text, NonBlank)
    IN  { i \in 1..Len(parts) : has_marker(parts[i]) }
MetadataPart ==
    SelectSeq(applied.text, NonBlank)[CHOOSE i \in MetadataParts : \A j \in MetadataParts : j <= i]

\* Lines of a part that are well formed for a field.
WellFormedState(part) == { i \in 1..Len(part) : part[i] = StateLine }
WellFormedRouting(part) == { i \in 1..Len(part) : part[i] \in { RoutingLine, RoutingLower } }
WellFormedInventory(part) == { i \in 1..Len(part) : part[i] = InventoryLine }
WellFormedIteration(part) == { i \in 1..Len(part) : part[i] = IterationLine }

\* C20: parse_retail_state returns all six fields and never raises; without
\* a delimiter, or without a non-blank part holding a state or routing
\* marker, it returns the default state; otherwise each field comes from the
\* last such part, and a field whose line is missing or malformed there
\* keeps its default.
C20_ParseTotalWithDefaults ==
    ParseApplied =>
        /\ DOMAIN applied.value = DOMAIN DefaultState
        /\ IF Len(applied.text) < 2 \/ MetadataParts = {}
           THEN applied.value = DefaultState
           ELSE LET part == MetadataPart
                    v == applied.value
                IN  /\ IF WellFormedState(part) = {}
                       THEN /\ v.product_status = DefaultState.product_status
                            /\ v.insurance_status = DefaultState.insurance_status
                            /\ v.overall_status = DefaultState.overall_status
                       ELSE /\ v.product_status = "agreed"
                            /\ v.insurance_status = "offered"
                            /\ v.overall_status = "insurance_phase"
                    /\ IF WellFormedRouting(part) = {}
                       THEN v.routing = DefaultState.routing
                       ELSE v.routing = lower_word(part[First(WellFormedRouting(part))].value)
                    /\ IF WellFormedInventory(part) = {}
                       THEN v.inventory_checked = DefaultState.inventory_checked
                       ELSE v.inventory_checked
                    /\ IF WellFormedIteration(part) = {}
                       THEN v.iteration_count = DefaultState.iteration_count
                       ELSE v.iteration_count = 2

\* handle_customer_query has returned.
QueryAnswered == pc = "answered"

\* C13: once customer_clarifications has reached 10, a customer turn returns
\* the fixed reset message with no inventory check and no specialist
\* entries, calls no agent, and leaves the three counters and the stored
\* retail state as they were.
C13_SessionCap ==
    (QueryAnswered /\ turn.counts_before["customer_clarifications"] >= 10) =>
        /\ turn.main_response = SessionCapMessage
        /\ turn.inventory_check = NoInventoryCheck
        /\ turn.specialist_responses = << >>
        /\ turn.agent_calls = << >>
        /\ iteration_counts = turn.counts_before
        /\ retail_state = turn.state_before

\* A capped session with a stored retail state and a specialist counter
\* above zero has answered a prompt.
C13_Witness ==
    /\ QueryAnswered
    /\ turn.counts_before["customer_clarifications"] >= 10
    /\ turn.main_response = SessionCapMessage
    /\ turn.state_before # NoRetailState
    /\ turn.counts_before["product_agent_calls"] > 0

\* Lines 777-786: the route the agent's result resolves to, before the
\* customer's wording is looked at.
AgentResolvedRoute ==
    LET routing_from_result == normalize_route_name(AgentPayload.routing)
    IN  IF routing_from_result \in { "product_agent", INSURANCE_ROUTE }
        THEN routing_from_result
        ELSE infer_routing_from_system_messages(AgentPayload.specialist_responses,
                                                AgentPayload.state)

\* C30: when the orchestrator agent's valid result resolves the route to
\* insurance_agent, the product specialist is not called and the returned
\* routing is not product_agent, whatever the customer's latest message says.
C30_InsuranceRouteKept ==
    (Completed /\ OnAgentPath /\ AgentResolvedRoute = INSURANCE_ROUTE) =>
        /\ ~Called("product")
        /\ Result.routing # "product_agent"

\* The agent's result holds a response of the insurance specialist.
SuppliedInsuranceEntry ==
    \E i \in 1..Len(AgentPayload.specialist_responses) :
        AgentPayload.specialist_responses[i].agent \in InsuranceSpecialistNames

\* C27, product: on the orchestrator-agent path, with effective route
\* product_agent, the gate open, the product counter below 3, a product
\* handle and no product specialist response in the agent's result, the
\* product specialist is called once, its entry appended and its counter
\* incremented, also when the result holds an insurance specialist response.
C27_ProductSpecialistInvoked ==
    ( /\ Completed /\ OnAgentPath /\ turn.outcome = "ok"
      /\ AgentRoute = "product_agent" /\ ~AgentGateClosed
      /\ turn.product_agent # "none"
      /\ CountOf(turn.counts_before, "product_agent_calls") < MaxSpecialistCalls
      /\ ~has_product_specialist_response(AgentPayload.specialist_responses) ) =>
        /\ turn.out.calls = << "product" >>
        /\ HasAgentEntry("Product Specialist")
        /\ CountOf(turn.out.counts, "product_agent_calls")
             = CountOf(turn.counts_before, "product_agent_calls") + 1

\* C27, insurance: the same for the insurance specialist, with its
\* validation in the place of the gate.
C27_InsuranceSpecialistInvoked ==
    ( /\ Completed /\ OnAgentPath /\ turn.outcome = "ok"
      /\ AgentRoute = INSURANCE_ROUTE
      /\ validate_insurance_context(AgentChecked.state, turn.history).valid
      /\ turn.insurance_agent # "none"
      /\ CountOf(turn.counts_before, "insurance_agent_calls") < MaxSpecialistCalls
      /\ ~SuppliedInsuranceEntry ) =>
        /\ turn.out.calls = << "insurance" >>
        /\ HasAgentEntry("Insurance Specialist")
        /\ CountOf(turn.out.counts, "insurance_agent_calls")
             = CountOf(turn.counts_before, "insurance_agent_calls") + 1

\* C27: a specialist whose conditions are met is invoked exactly once.
C27_SpecialistInvoked ==
    C27_ProductSpecialistInvoked /\ C27_InsuranceSpecialistInvoked

\* C28: a returned result whose routing is product_agent, or whose entries
\* hold a Product Specialist entry, carries an inventory check with checked
\* true in its normal form, and its state has inventory_checked true.
C28_InventoryWithProductRouting ==
    ( /\ Completed
      /\ \/ Result.routing = "product_agent"
         \/ HasAgentEntry("Product Specialist") ) =>
        /\ Result.inventory_check.present
        /\ Result.inventory_check.checked
        /\ normalize_inventory_check_payload(Result.inventory_check, Result.state)
             = Result.inventory_check
        /\ Result.state.inventory_checked

\* The returned inventory check was synthesized by the orchestrator: no
\* agent reported one.
InventorySynthesized ==
    /\ Result.inventory_check.present
    /\ ~OnAgentPath \/ ~AgentReported.inventory_check.present

\* C29: an inventory check the orchestrator synthesizes itself is returned
\* with internal_match_found null and no internal options.
C29_UnknownStaysUnknown ==
    (Completed /\ InventorySynthesized) =>
        /\ Result.inventory_check.internal_match_found = "null"
        /\ Result.inventory_check.internal_options = << >>

\* The kind of an entry of the specialist block.
EntryKind(entry) ==
    IF entry.agent \in ProductSpecialistNames \cup InsuranceSpecialistNames THEN "specialist"
    ELSE IF entry.response \in { ProductCapNotice, InsuranceCapNotice } THEN "cap notice"
    ELSE IF entry.response \in { ProductUnavailable, InsuranceUnavailable }
    THEN "unavailable notice"
    ELSE IF entry.response \in { CannotRoutePrefix \o r :
                                   r \in { NotAgreedReason, NoBudgetReason, NoModelReason } }
    THEN "cannot-route notice"
    ELSE "other"
EntryKinds(entries) == { EntryKind(entries[i]) : i \in 1..Len(entries) } \ { "other" }

\* Lines 1001-1106 applied to the route, state, inventory check, history,
\* counters and handles of the orchestrator-agent path.
FallbackPolicy ==
    LET routing == fallback_gate(AgentRoute, AgentChecked.state,
                                 AgentChecked.inventory_check, turn.history)
    IN  fallback_insurance_block(routing, AgentChecked.state, turn.history,
            fallback_product_block(routing, turn.counts_before, << >>,
                                   turn.product_agent, turn.outcome),
            turn.insurance_agent, turn.outcome)

\* C26: with no specialist entry supplied by the orchestrator agent, the
\* orchestrator-agent path calls the same specialists, changes the counters
\* in the same way and appends the same kinds of entry as the fallback path
\* does for the same route, state, inventory check, history, counters and
\* handles.
C26_SamePolicyOnBothPaths ==
    (Completed /\ OnAgentPath /\ ~SuppliedSpecialistEntry) =>
        /\ turn.out.calls = FallbackPolicy.calls
        /\ turn.out.counts = FallbackPolicy.counts
        /\ EntryKinds(Result.specialist_responses) = EntryKinds(FallbackPolicy.entries)

PhaseApplied == applied.fn = "map_state_to_phase" /\ applied.done

\* The lookup table of the specification.
PhaseTable(status) ==
    CASE status = "intake" -> 1
      [] status = "inventory_check" -> 2
      [] status = "product_negotiation" -> 3
      [] status = "insurance_phase" -> 4
      [] status = "ready_to_checkout" -> 5
      [] status = "stopped" -> 5
      [] OTHER -> 1

\* C21: map_state_to_phase is a total lookup: intake 1, inventory_check 2,
\* product_negotiation 3, insurance_phase 4, ready_to_checkout 5, stopped 5,
\* and 1 for a missing or unknown overall_status; the phase is always in
\* 1..5 and the state is not modified.
C21_PhaseLookup ==
    PhaseApplied =>
        /\ applied.value \in 1..5
        /\ applied.state_after = applied.state
        /\ IF "overall_status" \in DOMAIN applied.state
              THEN applied.value = PhaseTable(applied.state.overall_status)
              ELSE applied.value = 1

\* A stopped conversation has been mapped to phase 5.
C21_Witness ==
    /\ PhaseApplied
    /\ "overall_status" \in DOMAIN applied.state
    /\ applied.state.overall_status = "stopped"
    /\ applied.value = 5

RequirementsCalled(n) == applied.fn = "extract_requirements" /\ applied.calls >= n

ValidationApplied == applied.fn = "validate_insurance_context" /\ applied.done

\* Budget and model as the two extractors find them in the history.
BudgetExtractable == extract_requirements_budget(applied.history) # "null"
ModelExtractable == extract_product_details_model(applied.history) # "null"

\* C23: validate_insurance_context returns a reason instead of raising:
\* (false, reason) with the reasons in the order product not agreed, budget
\* not confirmed, model not confirmed, and (true, null) exactly when the
\* product is agreed and both budget and model are extractable.
C23_ValidationReturnsReason ==
    ValidationApplied =>
        /\ ~applied.value.raises
        /\ applied.value.valid <=>
              (applied.state.product_status = "agreed" /\ BudgetExtractable /\ ModelExtractable)
        /\ applied.value.error_msg =
              ( IF applied.state.product_status # "agreed" THEN NotAgreedReason
                ELSE IF ~BudgetExtractable THEN NoBudgetReason
                ELSE IF ~ModelExtractable THEN NoModelReason
                ELSE "null" )

\* The change of a counter over the turn that has just been answered.
CounterStep(key) == CountOf(iteration_counts, key) - CountOf(turn.counts_before, key)

\* C25: in a session that starts with all counters at 0, product_agent_calls
\* and insurance_agent_calls stay within 0..3 and customer_clarifications
\* within 0..10; over a turn no counter decreases and none grows by more
\* than 1.
C25_CounterBounds ==
    /\ CountOf(iteration_counts, "product_agent_calls") \in 0..MaxSpecialistCalls
    /\ CountOf(iteration_counts, "insurance_agent_calls") \in 0..MaxSpecialistCalls
    /\ CountOf(iteration_counts, "customer_clarifications") \in 0..MaxClarifications
    /\ QueryAnswered => \A key \in CounterKeys : CounterStep(key) \in { 0, 1 }

\* A turn has taken the product counter to its cap while the session
\* counted the turn.
C25_Witness ==
    /\ QueryAnswered
    /\ CountOf(iteration_counts, "product_agent_calls") = MaxSpecialistCalls
    /\ CounterStep("product_agent_calls") = 1
    /\ CounterStep("customer_clarifications") = 1

\* The session has just been reset.
ResetDone == pc = "idle" /\ "reset" \in DOMAIN turn

\* C24: after Reset Chat the three counters are 0, the stored retail state is
\* empty, the phase is 1 and the message list holds only the greeting, so
\* that turns and specialist calls are again below their caps, whatever the
\* counters were before the reset.
C24_ResetRestoresFreshSession ==
    ResetDone =>
        /\ \A key \in CounterKeys : CountOf(iteration_counts, key) = 0
        /\ DOMAIN iteration_counts = CounterKeys
        /\ retail_state = NoRetailState
        /\ current_phase = 1
        /\ messages = << Greeting >>
        /\ ~session_capped(iteration_counts)
        /\ CountOf(iteration_counts, "product_agent_calls") < MaxSpecialistCalls
        /\ CountOf(iteration_counts, "insurance_agent_calls") < MaxSpecialistCalls

\* A session that had used up its ten turns and had a stored state has
\* been reset.
C24_Witness ==
    /\ ResetDone
    /\ turn.capped
    /\ turn.stored
    /\ CountOf(iteration_counts, "customer_clarifications") = 0

\* C31: in every returned result, if the product specialist was called
\* during the turn then routing is product_agent, and if the insurance
\* specialist was called then routing is insurance_agent.
C31_RoutingMatchesCalls ==
    Completed =>
        /\ Called("product") => Result.routing = "product_agent"
        /\ Called("insurance") => Result.routing = INSURANCE_ROUTE

\* C32: in every returned result, if specialist_responses contains a Product
\* Specialist entry then the gate predicate has_failed_internal_option_agreement
\* holds for the result's state, its inventory_check and the history.
C32_ProductContentGated ==
    (Completed /\ HasAgentEntry("Product Specialist")) =>
        has_failed_internal_option_agreement(Result.state, Result.inventory_check,
                                             turn.history)

\* C33: handle_customer_query increments customer_clarifications by exactly
\* 1 on a turn that ran intake and orchestration to completion and leaves it
\* unchanged on a turn that ended in the session-cap message, the
\* missing-configuration message, demo mode or a caught exception; the
\* stored retail state is replaced by the result's state only on a
\* completed turn.
C33_SessionBookkeeping ==
    QueryAnswered =>
        IF turn.ended = "completed"
        THEN /\ CounterStep("customer_clarifications") = 1
             /\ retail_state = turn.result_state
        ELSE /\ turn.ended \in { "cap", "missing configuration", "demo", "exception" }
             /\ CounterStep("customer_clarifications") = 0
             /\ retail_state = turn.state_before

\* A turn of a session that has a stored state and counted turns has ended
\* in a caught exception.
C33_Witness ==
    /\ QueryAnswered
    /\ turn.ended = "exception"
    /\ turn.state_before # NoRetailState
    /\ CountOf(turn.counts_before, "customer_clarifications") > 0
    /\ CountOf(iteration_counts, "customer_clarifications")
         = CountOf(turn.counts_before, "customer_clarifications")

WindowsApplied == applied.fn = "extraction windows" /\ applied.done

\* A budget is stated before the last five entries and none within them.
BudgetOnlyOutsideWindow ==
    /\ Len(applied.history) > RequirementsWindow
    /\ \E i \in 1..(Len(applied.history) - RequirementsWindow) :
           budget_of(applied.history[i].content) # "null"
    /\ \A i \in (Len(applied.history) - RequirementsWindow + 1)..Len(applied.history) :
           /\ applied.history[i] # NonDictEntry
           /\ budget_of(applied.history[i].content) = "null"

\* C34: extract_requirements returns on the full history what it returns on
\* its last 5 entries, extract_product_details what it returns on its last
\* 12 (with their embedded specialist responses), and a budget stated more
\* than 5 entries before the end does not satisfy the price requirement of
\* the insurance validation.
C34_ExtractionWindows ==
    WindowsApplied =>
        /\ applied.requirements = applied.suffix_requirements
        /\ applied.product_details = applied.suffix_product_details
        /\ BudgetOnlyOutsideWindow =>
              applied.verdict = [raises |-> FALSE, valid |-> FALSE, error_msg |-> NoBudgetReason]

\* The extractors have read a history of thirteen entries whose first entry
\* names a model in an embedded specialist response, outside the window.
C34_Witness ==
    /\ WindowsApplied
    /\ Len(applied.history) = ProductDetailsWindow + 1
    /\ applied.history[1] = EmbeddedMsg
    /\ applied.product_details.product_details.product_model = "null"
    /\ applied.suffix_product_details.product_details.product_model = "null"

====
